---- MODULE Spec2Model ----
(***************************************************************************)
(* Model of the sampling-and-alerting engine of System-Monitor-Qt5:        *)
(*   src/src/model/managers/alertmanager.{h,cpp}   the alert engine        *)
(*   src/src/model/base/basemonitor.{h,cpp}        the monitor lifecycle   *)
(*   src/src/model/monitors/{cpu,memory}monitor.*  the two monitors        *)
(*   src/src/core/systemutils.cpp                  the rate computation    *)
(*   src/src/model/managers/datamanager.{h,cpp}    the coordinator         *)
(* Times are milliseconds since an arbitrary epoch; percentages and        *)
(* temperatures are whole units (the thresholds of constants.h are whole   *)
(* numbers, so >= on these integers is >= on the doubles they stand for).  *)
(* A call of the AlertManager that holds m_alertsMutex from its first      *)
(* statement to its last is one step, and two, the lock and the rest,      *)
(* where the thread it may keep waiting is part of the question.           *)
(* checkCPUThresholds and checkMemoryThresholds read and write the flags   *)
(* and the times outside the mutex and take it only inside addAlert, so    *)
(* they are one step per access of a member or of the clock, on every      *)
(* thread that calls them; where a single thread calls them the clock      *)
(* reads of one call return the same millisecond.                          *)
(* A monitor's tick runs on the monitor's thread while other               *)
(* threads call its accessors and its lifecycle operations, so the tick is *)
(* one step per phase where that interleaving matters and one step where   *)
(* it does not.  A double that holds a percentage is the exact rational it *)
(* rounds, a pair <<numerator, denominator>>; a temperature is in          *)
(* thousandths of a degree inside a monitor, and an amount of memory in kB, *)
(* the unit of /proc/meminfo (the code's bytes are 1024 times that).        *)
(***************************************************************************)
EXTENDS Integers, Sequences, FiniteSets, TLC

\* ------------------------------------------------------------------------
\* Program constants
\* ------------------------------------------------------------------------
MAX_ALERTS_HISTORY == 200
MIN_ALERTS_HISTORY == 50
LIMIT_ALERTS_HISTORY == 1000
CPU_WARNING_THRESHOLD == 75
CPU_CRITICAL_THRESHOLD == 90
RAM_WARNING_THRESHOLD == 80
RAM_CRITICAL_THRESHOLD == 95
TEMP_WARNING_THRESHOLD == 70
TEMP_CRITICAL_THRESHOLD == 80
ALERT_COOLDOWN_MS == 30000
RETENTION_MS == 86400000
UPDATE_INTERVAL == 1000
MAX_HISTORY_SIZE == 120
MIN_HISTORY_SIZE == 10
LIMIT_HISTORY_SIZE == 1000
\* 50 * 1024 * 1024 bytes, in kB
LOW_MEMORY_THRESHOLD == 51200
SwapWarningPercent == 50
\* the smallest interval setUpdateInterval stores
MIN_UPDATE_INTERVAL == 100
MIN_TEMPERATURE == -40
MAX_TEMPERATURE == 150

\* ------------------------------------------------------------------------
\* Bounds of the model
\* ------------------------------------------------------------------------
\* number of operations (calls, timer expiries, clock advances) of one run
MaxSteps == 4
\* number of operations of one run of the capacity specification
MaxCapSteps == 54
\* largest number acknowledgeAlert is tried with
MaxAlertId == 12
\* number of steps (calls, timer expiries, phases of a tick) of one run of the
\* monitor specification
MaxMonSteps == 10
\* number of operations (whole ticks, setHistorySize calls) of one run of the
\* history specification
MaxHistSteps == 13
\* number of setHistorySize calls of one run of the history specification
MaxResizes == 2
\* the counters handed to the rate computation range over 0..MaxCounter and
\* the values of CounterSamples
MaxCounter == 2
\* number of processor entries of /proc/cpuinfo
Processors == 2
\* number of operations (whole ticks, getCurrentData calls) of one run of the
\* CPU sampling specification
MaxCpuSteps == 4
\* number of operations (calls, timer expiries) of one run of the coordinator
\* specification
MaxDmSteps == 5
\* number of operations (calls, timer expiries) of one run of the
\* specification of a pause
MaxPauseSteps == 7
\* number of expiries of each timer of the coordinator in one run of the
\* specification with fair timers
MaxExpiries == 1
\* calls of the threshold evaluation and advances of the clock in one run of
\* the specification with two calling threads
MaxThreadSteps == 4

\* ------------------------------------------------------------------------
\* Values
\* ------------------------------------------------------------------------
\* a default-constructed (invalid) QDateTime
InvalidTime == -1

\* QDateTime::msecsTo: 0 when either side is invalid
MsecsTo(from, to) ==
    IF from = InvalidTime \/ to = InvalidTime THEN 0 ELSE to - from

\* QString values are sequences of one-character strings
SrcCPU == <<"C", "P", "U">>
SrcMemory == <<"M", "e", "m", "o", "r", "y">>
SrcTemperature == <<"T", "e", "m", "p", "e", "r", "a", "t", "u", "r", "e">>
SrcNet1 == <<"N", "e", "t", "1">>
SrcNet12 == <<"N", "e", "t", "1", "2">>
SrcDisk == <<"D", "i", "s", "k">>

DigitChar(d) == <<"0", "1", "2", "3", "4", "5", "6", "7", "8", "9">>[d + 1]

RECURSIVE Digits(_)
Digits(n) ==
    IF n < 10 THEN <<DigitChar(n)>>
    ELSE Digits(n \div 10) \o <<DigitChar(n % 10)>>

\* QString::number(int): decimal digits, a leading minus sign when negative
QStringNumber(n) == IF n < 0 THEN <<"-">> \o Digits(0 - n) ELSE Digits(n)

\* QString::contains(const QString&): substring test, case sensitive
QStringContains(s, sub) ==
    \E i \in 1..(Len(s) + 1) :
        /\ i + Len(sub) - 1 <= Len(s)
        /\ SubSeq(s, i, i + Len(sub) - 1) = sub

Severities == {"Info", "Warning", "Critical", "Emergency"}

\* AlertData (the message text is left out: nothing reads it)
AlertFields(severity, title, source, timestamp, acknowledged) ==
    [severity |-> severity, title |-> title, source |-> source,
     timestamp |-> timestamp, acknowledged |-> acknowledged]

\* the alert field of a signal that carries no alert
NoAlert == AlertFields("Info", "", <<>>, InvalidTime, FALSE)

\* One emitted Qt signal with its arguments
Signal(sig, alert, total, unack, id) ==
    [sig |-> sig, alert |-> alert, total |-> total, unack |-> unack, id |-> id]

\* ------------------------------------------------------------------------
\* Inputs
\* ------------------------------------------------------------------------
\* CPUData (totalUsage, temperature) handed to checkCPUThresholds: each
\* source below its warning threshold, at it, and at or above its critical one
CPUInputs ==
    { <<CPU_WARNING_THRESHOLD - 1, TEMP_WARNING_THRESHOLD - 1>>,
      <<CPU_WARNING_THRESHOLD, TEMP_WARNING_THRESHOLD - 1>>,
      <<CPU_CRITICAL_THRESHOLD, TEMP_WARNING_THRESHOLD - 1>>,
      <<CPU_WARNING_THRESHOLD - 1, TEMP_WARNING_THRESHOLD>>,
      <<CPU_WARNING_THRESHOLD - 1, TEMP_CRITICAL_THRESHOLD + 2>>,
      <<CPU_CRITICAL_THRESHOLD, TEMP_CRITICAL_THRESHOLD + 2>> }

\* MemoryData.usagePercentage handed to checkMemoryThresholds
MemoryInputs == {RAM_WARNING_THRESHOLD - 1, RAM_WARNING_THRESHOLD, RAM_CRITICAL_THRESHOLD}

\* arguments of acknowledgeAlert
AlertIds == {1, 12}

\* arguments of setMaxAlertsHistory
MaxCountInputs == {MIN_ALERTS_HISTORY - 40, 2 * LIMIT_ALERTS_HISTORY}

\* time that passes between two operations
TimeSteps == {ALERT_COOLDOWN_MS, ALERT_COOLDOWN_MS + 1, RETENTION_MS + 1}

Sources == {"CPU", "Memory", "Temperature"}

\* the threads that call the alert engine
Threads == {"main", "worker"}

\* the members of the engine and the records about the evaluations before
\* any call
NoSnapshot ==
    [members |-> [source \in Sources |->
                     [warning |-> FALSE, critical |-> FALSE, last |-> InvalidTime]],
     alerts |-> <<>>,
     lastFired |-> [p \in Sources \X {"Warning", "Critical"} |-> InvalidTime],
     evalHist |-> [source \in Sources |-> <<"none", "none">>]]

\* a thread outside checkCPUThresholds and checkMemoryThresholds. Inside a
\* call, pc is the access to the members of the engine the thread is about
\* to make:
\*   "readFlag"     the read of the active flag in shouldCreate*Alert
\*   "readTime"     the read of the last-alert time there, and its return
\*   "addAlert"     the call of addAlert
\*   "setFlag"      the assignment to the active flag after it
\*   "readClock"    the call of QDateTime::currentDateTime after that
\*   "setTime"      the assignment of what it returned to the last-alert time
\*   "clearFirst"   the first assignment of the else branch
\*   "clearSecond"  the second one
\* name and args are the call, source is the block of statements the thread
\* is in, severity the condition or branch of it, isActive and alert are the
\* locals of shouldCreate*Alert and of the branch, clock the time
\* currentDateTime returned to the branch, emitted the signals the call has
\* emitted, and before the members when the call began
NotCalling ==
    [pc |-> "idle", name |-> "", args |-> <<>>, source |-> "CPU",
     severity |-> "Clear", isActive |-> FALSE, alert |-> NoAlert,
     clock |-> InvalidTime, emitted |-> <<>>, before |-> NoSnapshot]

\* ------------------------------------------------------------------------
\* State
\* ------------------------------------------------------------------------
VARIABLES
    now,                      \* QDateTime::currentDateTime()
    m_alerts,                 \* QVector<AlertData>
    m_maxAlertsHistory,
    m_nextAlertId,
    m_cpuWarningActive,
    m_cpuCriticalActive,
    m_memoryWarningActive,
    m_memoryCriticalActive,
    m_tempWarningActive,
    m_tempCriticalActive,
    m_lastCPUAlert,
    m_lastMemoryAlert,
    m_lastTempAlert,
    emitted,                  \* the signals the last operation emitted, in order
    op,                       \* the last operation and its arguments
    steps,                    \* operations so far
    lastFired,                \* per (source, severity): when an alert of it was last emitted
    evalHist,                 \* per source: classes of the last two evaluated values
    allCritical,              \* per source: every evaluated value so far was critical
    calls,                    \* per thread: its place inside a threshold evaluation
    kind,                     \* dynamic class of the monitor: "cpu" or "memory"
    monitor,                  \* the data members of the monitor
    m_isMonitoring,
    m_isPaused,
    timerActive,              \* m_updateTimer->isActive()
    m_dataMutex,              \* who holds BaseMonitor::m_dataMutex
    tickPc,                   \* the phase onTimerTick is about to run, or "idle"
    readResult,               \* what the last getCurrentData / getHistory returned
    tickLog,                  \* the signals of the tick in flight, or of the last one
    tickStart,                \* the data members when that tick began
    tickFault,                \* the phase that raised a fault in that tick, or "none"
    published,                \* every snapshot published so far, in order
    constTicks,               \* completed ticks since the capacity last changed
    resizes,                  \* setHistorySize calls so far
    rateIn,                   \* the counters handed to the rate computation
    rateOut,                  \* what the rate computation returned
    dm                        \* the DataManager: its data members and what it owns

alertVars == <<m_alerts, m_maxAlertsHistory, m_nextAlertId, emitted>>
cpuVars == <<m_cpuWarningActive, m_cpuCriticalActive, m_lastCPUAlert>>
memoryVars == <<m_memoryWarningActive, m_memoryCriticalActive, m_lastMemoryAlert>>
tempVars == <<m_tempWarningActive, m_tempCriticalActive, m_lastTempAlert>>
historyVars == <<lastFired, evalHist, allCritical, calls>>
monitorVars == <<kind, monitor, m_isMonitoring, m_isPaused, timerActive,
                 m_dataMutex, tickPc, readResult>>
tickHistoryVars == <<tickLog, tickStart, tickFault, published, constTicks, resizes>>
rateVars == <<rateIn, rateOut>>
vars == <<now, alertVars, cpuVars, memoryVars, tempVars, op, steps, historyVars,
          monitorVars, tickHistoryVars, rateVars, dm>>

Operation(name, args) == [name |-> name, args |-> args]

\* AlertData::AlertData stamps the alert with the current time; the caller
\* then assigns the other members
AlertData(severity, title, source, acknowledged) ==
    AlertFields(severity, title, source, now, acknowledged)

\* alerts a caller constructs and hands to addAlert
ExternalAlerts ==
    { AlertData("Info", "Link up", SrcNet1, FALSE),
      AlertData("Warning", "Link slow", SrcNet12, FALSE),
      AlertData("Emergency", "Disk full", SrcDisk, TRUE) }

\* ------------------------------------------------------------------------
\* Values of the monitors
\* ------------------------------------------------------------------------
\* a double that holds a percentage: the rational num / den
Rat(num, den) == <<num, den>>
RatZero == Rat(0, 1)
RatHundred == Rat(100, 1)

\* a < b on two such doubles (denominators are not negative)
RatLess(a, b) == a[1] * b[2] < b[1] * a[2]

\* value >= threshold for a whole threshold
RatAtLeast(value, threshold) == value[1] >= threshold * value[2]

\* qMin, qMax and qBound of qglobal.h on doubles
qMin(a, b) == IF RatLess(a, b) THEN a ELSE b
qMax(a, b) == IF RatLess(a, b) THEN b ELSE a
qBoundDouble(min, value, max) == qMax(min, qMin(max, value))

\* CPUMonitor::CPUStat: idle, and the sum of the seven other counters
CPUStat(busy, idle) == [busy |-> busy, idle |-> idle]

\* CPUStat::total
total(stat) == stat.busy + stat.idle

\* CPUCoreData() (frequency and temperature are left out)
CPUCoreData == [coreID |-> -1, usage |-> RatZero]

\* CPUData() (frequency and model are left out): stamped with the current
\* time by its constructor
CPUData ==
    [totalUsage |-> RatZero, temperature |-> 0, coreCount |-> 0, cores |-> <<>>,
     status |-> "Unknown", timestamp |-> now]

\* MemoryData() (free, buffers and cached are left out): stamped with the
\* current time by its constructor
MemoryData ==
    [totalRAM |-> 0, usedRAM |-> 0, availableRAM |-> 0,
     swapTotal |-> 0, swapUsed |-> 0,
     usagePercentage |-> RatZero, swapPercentage |-> RatZero,
     status |-> "Unknown", timestamp |-> now]

\* a value as its constructor left it when the program started, at time 0
AtStart(data) == [data EXCEPT !.timestamp = 0]

Kinds == {"cpu", "memory"}

\* the lines "cpu0", "cpu1", ... of one reading of /proc/stat: the same
\* counters on each of the first n lines, or lines that do not parse
CoreLines(n, ok, busy, idle) ==
    [i \in 1..n |-> [ok |-> ok, busy |-> busy, idle |-> idle]]

\* one reading of /proc/stat and of the thermal zone (thousandths of a
\* degree): statOk, the file was read and is not empty; cpuLineOk, its first
\* line is "cpu" followed by seven counters or more; then the lines of the
\* cores
CPUReading(statOk, cpuLineOk, busy, idle, cores, tempOk, tempMilliC) ==
    [statOk |-> statOk, cpuLineOk |-> cpuLineOk, busy |-> busy, idle |-> idle,
     cores |-> cores, tempOk |-> tempOk, tempMilliC |-> tempMilliC]

\* the lines SwapTotal and SwapFree of /proc/meminfo (kB): each is there and
\* matches "(\d+)\s*kB", or not
SwapLines(totalOk, swapTotal, freeOk, swapFree) ==
    [totalOk |-> totalOk, swapTotal |-> swapTotal,
     freeOk |-> freeOk, swapFree |-> swapFree]

\* one reading of /proc/meminfo (kB)
MemoryReading(ok, totalRAM, availableRAM, swap) ==
    [ok |-> ok, totalRAM |-> totalRAM, availableRAM |-> availableRAM,
     swap |-> swap]

\* what the raw source returns to a CPU monitor's tick: nothing readable, a
\* cool idle machine, a hot busy one, and a first line that is cut short
\* before the lines of the cores
CPUReadings ==
    { CPUReading(FALSE, FALSE, 0, 0, <<>>, FALSE, 0),
      CPUReading(TRUE, TRUE, 200, 800, CoreLines(Processors, TRUE, 100, 400),
                 TRUE, 45000),
      CPUReading(TRUE, TRUE, 350, 850, CoreLines(Processors, TRUE, 175, 425),
                 TRUE, 82000),
      CPUReading(TRUE, FALSE, 0, 0, CoreLines(Processors, TRUE, 175, 425),
                 TRUE, 45000) }

\* a tenth of the swap space in use, and nine tenths of it
SwapIdle == SwapLines(TRUE, 1000, TRUE, 900)
SwapBusy == SwapLines(TRUE, 1000, TRUE, 100)

\* what it returns to a memory monitor's tick: plenty available, and less than
\* the low-memory floor with most of the swap space in use
MemoryReadings ==
    { MemoryReading(TRUE, 1000000, 250000, SwapIdle),
      MemoryReading(TRUE, 1000000, 40000, SwapBusy) }

\* the reading MemoryMonitor's constructor takes
BootMemory == MemoryReading(TRUE, 1000000, 250000, SwapIdle)

\* SystemUtils::getTotalMemory / getAvailableMemory: 0 when the line is missing
getTotalMemory(raw) == IF raw.ok THEN raw.totalRAM ELSE 0
getAvailableMemory(raw) == IF raw.ok THEN raw.availableRAM ELSE 0

\* SystemUtils::getCPUCoreCount: the processor entries, 4 when there is none
getCPUCoreCount(processors) == IF processors > 0 THEN processors ELSE 4

\* the data members of a new CPUMonitor / MemoryMonitor (BaseMonitor's
\* m_lastUpdateTime included)
CPUMonitor ==
    [m_currentData |->
        [CPUData EXCEPT
            !.coreCount = getCPUCoreCount(Processors),
            !.cores = [i \in 1..getCPUCoreCount(Processors) |-> CPUCoreData]],
     m_currentStats |-> CPUStat(0, 0),
     m_previousStats |-> CPUStat(0, 0),
     m_coreStats |-> [i \in 1..getCPUCoreCount(Processors) |-> CPUStat(0, 0)],
     m_previousCoreStats |-> [i \in 1..getCPUCoreCount(Processors) |-> CPUStat(0, 0)],
     m_history |-> <<>>,
     m_maxHistorySize |-> MAX_HISTORY_SIZE,
     m_lastUpdateTime |-> InvalidTime]

MemoryMonitor ==
    [m_currentData |-> [MemoryData EXCEPT !.totalRAM = getTotalMemory(BootMemory)],
     m_currentStats |-> CPUStat(0, 0),
     m_previousStats |-> CPUStat(0, 0),
     m_history |-> <<>>,
     m_maxHistorySize |-> MAX_HISTORY_SIZE,
     m_lastUpdateTime |-> InvalidTime]

\* a signal of a monitor or of the coordinator with its argument: a snapshot,
\* an overview or a percentage as it is, a whole number or a truth value as
\* the tuple of it, <<>> where the signal has none
MonitorSignal(sig, data) == [sig |-> sig, data |-> data]

\* nothing read yet
NoRead == [call |-> "none"]

\* the counters of one call of the rate computation, and nothing computed yet
RateInput(totalTime, idleTime, lastTotalTime, lastIdleTime) ==
    [totalTime |-> totalTime, idleTime |-> idleTime,
     lastTotalTime |-> lastTotalTime, lastIdleTime |-> lastIdleTime]

NoRate == [computed |-> FALSE]

\* an empty std::unique_ptr to a monitor
NullMonitor == [exists |-> FALSE]

\* a monitor the DataManager owns, as its constructor leaves it: the data
\* members of its class, BaseMonitor's flags and interval, and its QTimer
BaseMonitor(k) ==
    [exists |-> TRUE,
     data |-> IF k = "cpu" THEN CPUMonitor ELSE MemoryMonitor,
     m_isMonitoring |-> FALSE,
     m_isPaused |-> FALSE,
     m_updateInterval |-> UPDATE_INTERVAL,
     timerActive |-> FALSE,
     timerInterval |-> 0,
     m_dataMutex |-> "free"]

\* DataManager::DataManager: monitors holds m_cpuMonitor and m_memoryMonitor,
\* connections the connections connectMonitorSignals has made, in order, and
\* delivered the slots the last tick of a monitor invoked, in order, and
\* pending those of them that have yet to run;
\* m_dataMutex is "free" or names the holder of the coordinator's mutex,
\* m_alertsMutex is "free" or names the holder of the alert engine's mutex;
\* pausedAt is when pause() last paused the coordinator;
\* expiries counts the expiries of each timer where the timers are fair;
\* terminated is set when the process has ended
DataManager ==
    [monitors |-> [k \in Kinds |-> NullMonitor],
     m_alertManager |-> FALSE,
     m_currentOverview |-> [cpu |-> CPUData, memory |-> MemoryData, timestamp |-> now],
     aggregationTimer |-> [active |-> FALSE, interval |-> 0],
     m_isInitialized |-> FALSE,
     m_isRunning |-> FALSE,
     m_isPaused |-> FALSE,
     m_updateInterval |-> UPDATE_INTERVAL,
     connections |-> <<>>,
     delivered |-> <<>>,
     pending |-> <<>>,
     aggregating |-> FALSE,
     m_dataMutex |-> "free",
     m_alertsMutex |-> "free",
     pausedAt |-> InvalidTime,
     expiries |-> [timer \in Kinds \cup {"aggregate"} |-> 0],
     terminated |-> FALSE]

\* AlertManager::AlertManager
AlertManagerInit ==
    /\ now = 0
    /\ m_alerts = <<>>
    /\ m_maxAlertsHistory = MAX_ALERTS_HISTORY
    /\ m_nextAlertId = 1
    /\ m_cpuWarningActive = FALSE
    /\ m_cpuCriticalActive = FALSE
    /\ m_memoryWarningActive = FALSE
    /\ m_memoryCriticalActive = FALSE
    /\ m_tempWarningActive = FALSE
    /\ m_tempCriticalActive = FALSE
    /\ m_lastCPUAlert = InvalidTime
    /\ m_lastMemoryAlert = InvalidTime
    /\ m_lastTempAlert = InvalidTime
    /\ emitted = <<>>
    /\ op = Operation("construct", <<>>)
    /\ steps = 0
    /\ lastFired = [p \in Sources \X {"Warning", "Critical"} |-> InvalidTime]
    /\ evalHist = [s \in Sources |-> <<"none", "none">>]
    /\ allCritical = [s \in Sources |-> TRUE]
    /\ calls = [t \in Threads |-> NotCalling]

\* BaseMonitor::BaseMonitor and the constructor of the monitor's class
MonitorInit(k) ==
    /\ kind = k
    /\ monitor = (IF k = "cpu" THEN CPUMonitor ELSE MemoryMonitor)
    /\ m_isMonitoring = FALSE
    /\ m_isPaused = FALSE
    /\ timerActive = FALSE
    /\ m_dataMutex = "free"
    /\ tickPc = "idle"
    /\ readResult = NoRead
    /\ tickLog = <<>>
    /\ tickStart = monitor
    /\ tickFault = "none"
    /\ published = <<>>
    /\ constTicks = 0
    /\ resizes = 0

RateIdle ==
    /\ rateIn = RateInput(0, 0, 0, 0)
    /\ rateOut = NoRate
    /\ dm = DataManager

Init ==
    /\ AlertManagerInit
    /\ MonitorInit("cpu")
    /\ RateIdle

\* ------------------------------------------------------------------------
\* AlertManager: the alert log
\* ------------------------------------------------------------------------
\* AlertManager::getUnacknowledgedCount: loop over m_alerts
RECURSIVE getUnacknowledgedCount(_)
getUnacknowledgedCount(alerts) ==
    IF alerts = <<>> THEN 0
    ELSE (IF ~Head(alerts).acknowledged THEN 1 ELSE 0)
         + getUnacknowledgedCount(Tail(alerts))

\* getActiveAlerts with the test of the loop inverted
RECURSIVE getActiveAlerts_Inverted(_)
getActiveAlerts_Inverted(alerts) ==
    IF alerts = <<>> THEN <<>>
    ELSE (IF Head(alerts).acknowledged THEN <<Head(alerts)>> ELSE <<>>)
         \o getActiveAlerts_Inverted(Tail(alerts))

\* AlertManager::getActiveAlerts: loop over m_alerts, append the unacknowledged
RECURSIVE getActiveAlerts(_)
getActiveAlerts(alerts) ==
    IF alerts = <<>> THEN <<>>
    ELSE (IF ~Head(alerts).acknowledged THEN <<Head(alerts)>> ELSE <<>>)
         \o getActiveAlerts(Tail(alerts))

\* AlertManager::getAllAlerts
getAllAlerts == m_alerts

\* the test of addAlert without its Emergency half
RaisesCritical_CriticalOnly(severity) == severity = "Critical"

\* the severities addAlert raises criticalAlert for
RaisesCritical(severity) == severity = "Critical" \/ severity = "Emergency"

\* the eviction of addAlert
Evict(alerts, maxCount) ==
    IF Len(alerts) > maxCount THEN Tail(alerts) ELSE alerts

\* AlertManager::addAlert on a log state [alerts, emitted]:
\* stamp, append, emit, then drop the first alert when over capacity
addAlert(log, alert) ==
    LET newAlert == [alert EXCEPT !.timestamp = now]
        appended == Append(log.alerts, newAlert)
        signals ==
            <<Signal("alertAdded", newAlert, 0, 0, 0)>>
            \o (IF RaisesCritical(newAlert.severity)
                THEN <<Signal("criticalAlert", newAlert, 0, 0, 0)>> ELSE <<>>)
            \o <<Signal("alertCountChanged", NoAlert, Len(appended),
                        getUnacknowledgedCount(appended), 0)>>
    IN  [alerts |-> Evict(appended, m_maxAlertsHistory),
         emitted |-> log.emitted \o signals]

\* the log state an operation starts from
LogNow == [alerts |-> m_alerts, emitted |-> <<>>]

DoAddAlert(alert) ==
    LET log == addAlert(LogNow, alert) IN
    /\ m_alerts' = log.alerts
    /\ emitted' = log.emitted
    /\ op' = Operation("addAlert", <<alert>>)
    /\ steps' = steps + 1
    /\ UNCHANGED <<now, m_maxAlertsHistory, m_nextAlertId, cpuVars, memoryVars,
                   tempVars, historyVars,
                   monitorVars, tickHistoryVars, rateVars, dm>>

AddAlert ==
    /\ steps < MaxSteps
    /\ \E alert \in ExternalAlerts : DoAddAlert(alert)

\* index of the first alert whose source contains the number, 0 when none
RECURSIVE FirstMatch(_, _, _)
FirstMatch(alerts, alertId, i) ==
    IF i > Len(alerts) THEN 0
    ELSE IF QStringContains(alerts[i].source, QStringNumber(alertId)) THEN i
    ELSE FirstMatch(alerts, alertId, i + 1)

\* acknowledgeAlert emitting after the loop instead of inside its if
AcknowledgeSignals_AfterLoop(i, alertId, marked) ==
    <<Signal("alertAcknowledged", NoAlert, 0, 0, alertId),
      Signal("alertCountChanged", NoAlert, Len(marked),
             getUnacknowledgedCount(marked), 0)>>

\* what acknowledgeAlert emits: inside the if of the loop only (i = 0: no match)
AcknowledgeSignals(i, alertId, marked) ==
    IF i = 0 THEN <<>>
    ELSE <<Signal("alertAcknowledged", NoAlert, 0, 0, alertId),
           Signal("alertCountChanged", NoAlert, Len(marked),
                  getUnacknowledgedCount(marked), 0)>>

\* AlertManager::acknowledgeAlert on a log: mark the first alert whose source
\* contains the number, emit, and leave the loop
acknowledgeAlert(alerts, alertId) ==
    LET i == FirstMatch(alerts, alertId, 1)
        marked == IF i = 0 THEN alerts
                  ELSE [alerts EXCEPT ![i].acknowledged = TRUE]
    IN  [alerts |-> marked, emitted |-> AcknowledgeSignals(i, alertId, marked)]

AcknowledgeAlert ==
    /\ steps < MaxSteps
    /\ \E alertId \in AlertIds :
        LET log == acknowledgeAlert(m_alerts, alertId) IN
            /\ m_alerts' = log.alerts
            /\ emitted' = log.emitted
            /\ op' = Operation("acknowledgeAlert", <<alertId>>)
    /\ steps' = steps + 1
    /\ UNCHANGED <<now, m_maxAlertsHistory, m_nextAlertId, cpuVars,
                   memoryVars, tempVars, historyVars,
                   monitorVars, tickHistoryVars, rateVars, dm>>

\* AlertManager::clearAllAlerts
ClearAllAlerts ==
    /\ steps < MaxSteps
    /\ m_alerts' = <<>>
    /\ emitted' = <<Signal("alertCountChanged", NoAlert, 0, 0, 0)>>
    /\ op' = Operation("clearAllAlerts", <<>>)
    /\ steps' = steps + 1
    /\ UNCHANGED <<now, m_maxAlertsHistory, m_nextAlertId, cpuVars,
                   memoryVars, tempVars, historyVars,
                   monitorVars, tickHistoryVars, rateVars, dm>>

\* the lambda of clearAcknowledgedAlerts
IsAcknowledged(alert) == alert.acknowledged

\* the lambda of cleanupOldAlerts without its test of the acknowledged flag
IsExpired_AnyOld(alert) == alert.timestamp < now - RETENTION_MS

\* the lambda of cleanupOldAlerts: acknowledged and stamped before the cutoff
\* (cutoffTime = currentDateTime().addDays(-1))
IsExpired(alert) ==
    alert.acknowledged /\ alert.timestamp < now - RETENTION_MS

Removed(alert, expired) ==
    IF expired THEN IsExpired(alert) ELSE IsAcknowledged(alert)

\* std::remove_if + erase: the alerts the predicate does not select, in order
\* (Expired: the predicate of cleanupOldAlerts; otherwise that of
\* clearAcknowledgedAlerts)
RECURSIVE RemoveIf(_, _)
RemoveIf(alerts, expired) ==
    IF alerts = <<>> THEN <<>>
    ELSE (IF Removed(Head(alerts), expired) THEN <<>> ELSE <<Head(alerts)>>)
         \o RemoveIf(Tail(alerts), expired)

\* AlertManager::clearAcknowledgedAlerts
ClearAcknowledgedAlerts ==
    /\ steps < MaxSteps
    /\ LET kept == RemoveIf(m_alerts, FALSE) IN
        /\ m_alerts' = kept
        /\ emitted' = <<Signal("alertCountChanged", NoAlert, Len(kept),
                               getUnacknowledgedCount(kept), 0)>>
    /\ op' = Operation("clearAcknowledgedAlerts", <<>>)
    /\ steps' = steps + 1
    /\ UNCHANGED <<now, m_maxAlertsHistory, m_nextAlertId, cpuVars,
                   memoryVars, tempVars, historyVars,
                   monitorVars, tickHistoryVars, rateVars, dm>>

\* AlertManager::cleanupOldAlerts (slot of m_cleanupTimer)
CleanupOldAlerts ==
    /\ steps < MaxSteps
    /\ LET kept == RemoveIf(m_alerts, TRUE) IN
        /\ m_alerts' = kept
        /\ emitted' =
             IF Len(kept) # Len(m_alerts)
             THEN <<Signal("alertCountChanged", NoAlert, Len(kept),
                           getUnacknowledgedCount(kept), 0)>>
             ELSE <<>>
    /\ op' = Operation("cleanupOldAlerts", <<>>)
    /\ steps' = steps + 1
    /\ UNCHANGED <<now, m_maxAlertsHistory, m_nextAlertId, cpuVars,
                   memoryVars, tempVars, historyVars,
                   monitorVars, tickHistoryVars, rateVars, dm>>

\* qBound(min, value, max)
qBound(min, value, max) ==
    IF value < min THEN min ELSE IF value > max THEN max ELSE value

DoSetMaxAlertsHistory(maxCount) ==
    /\ m_maxAlertsHistory' = qBound(MIN_ALERTS_HISTORY, maxCount, LIMIT_ALERTS_HISTORY)
    /\ emitted' = <<>>
    /\ op' = Operation("setMaxAlertsHistory", <<maxCount>>)
    /\ steps' = steps + 1
    /\ UNCHANGED <<now, m_alerts, m_nextAlertId, cpuVars, memoryVars,
                   tempVars, historyVars,
                   monitorVars, tickHistoryVars, rateVars, dm>>

\* AlertManager::setMaxAlertsHistory
SetMaxAlertsHistory ==
    /\ steps < MaxSteps
    /\ \E maxCount \in MaxCountInputs : DoSetMaxAlertsHistory(maxCount)

\* the clock advances between two operations
ClockAdvance(bound) ==
    /\ steps < bound
    /\ \E d \in TimeSteps : now' = now + d
    /\ emitted' = <<>>
    /\ op' = Operation("tick", <<>>)
    /\ steps' = steps + 1
    /\ UNCHANGED <<m_alerts, m_maxAlertsHistory, m_nextAlertId, cpuVars,
                   memoryVars, tempVars, historyVars,
                   monitorVars, tickHistoryVars, rateVars, dm>>

Tick == ClockAdvance(MaxSteps)

\* ------------------------------------------------------------------------
\* AlertManager: threshold evaluation
\* ------------------------------------------------------------------------
\* checkCPUThresholds and checkMemoryThresholds hold m_alertsMutex only
\* inside addAlert. The active flags and the last-alert times are read (in
\* shouldCreate*Alert) and assigned under no lock, so a call is a sequence of
\* steps, one per read or assignment of a member and one for the addAlert
\* call, and another thread can run between any two of them. The tests of the
\* value against the thresholds and the construction of the alert touch no
\* member and belong to the step that follows them.

WarningThreshold(source) ==
    CASE source = "CPU" -> CPU_WARNING_THRESHOLD
      [] source = "Memory" -> RAM_WARNING_THRESHOLD
      [] source = "Temperature" -> TEMP_WARNING_THRESHOLD

CriticalThreshold(source) ==
    CASE source = "CPU" -> CPU_CRITICAL_THRESHOLD
      [] source = "Memory" -> RAM_CRITICAL_THRESHOLD
      [] source = "Temperature" -> TEMP_CRITICAL_THRESHOLD

\* the value of a call's argument that the block of a source tests
ValueOf(source, o) == IF source = "Temperature" THEN o.args[2] ELSE o.args[1]

\* the members the block of a source reads and assigns
Members ==
    [source \in Sources |->
        CASE source = "CPU" ->
                 [warning |-> m_cpuWarningActive, critical |-> m_cpuCriticalActive,
                  last |-> m_lastCPUAlert]
          [] source = "Memory" ->
                 [warning |-> m_memoryWarningActive,
                  critical |-> m_memoryCriticalActive, last |-> m_lastMemoryAlert]
          [] source = "Temperature" ->
                 [warning |-> m_tempWarningActive, critical |-> m_tempCriticalActive,
                  last |-> m_lastTempAlert]]

\* the members of one source take new values, those of the others keep theirs
AssignMembers(source, new) ==
    LET all == [Members EXCEPT ![source] = new] IN
    /\ m_cpuWarningActive' = all["CPU"].warning
    /\ m_cpuCriticalActive' = all["CPU"].critical
    /\ m_lastCPUAlert' = all["CPU"].last
    /\ m_memoryWarningActive' = all["Memory"].warning
    /\ m_memoryCriticalActive' = all["Memory"].critical
    /\ m_lastMemoryAlert' = all["Memory"].last
    /\ m_tempWarningActive' = all["Temperature"].warning
    /\ m_tempCriticalActive' = all["Temperature"].critical
    /\ m_lastTempAlert' = all["Temperature"].last

\* AlertManager::shouldCreateCPUAlert, shouldCreateMemoryAlert and
\* shouldCreateTempAlert, the second and third statement: isActive is the
\* flag the first statement read, lastAlert the time the second one reads
shouldCreateAlert(isActive, lastAlert) ==
    LET cooldownExpired == MsecsTo(lastAlert, now) > ALERT_COOLDOWN_MS
    IN  ~isActive \/ cooldownExpired

\* what a branch assigns to the source's critical flag, warning flag and
\* last-alert time
CriticalActiveAfter(branch, active) ==
    IF branch = "Critical" THEN TRUE
    ELSE IF branch = "Warning" THEN active
    ELSE FALSE

\* the else branch leaving m_*WarningActive as it is
WarningActiveAfter_NotCleared(branch, active) ==
    IF branch = "Critical" THEN active
    ELSE IF branch = "Warning" THEN TRUE
    ELSE active

WarningActiveAfter(branch, active) ==
    IF branch = "Critical" THEN active
    ELSE IF branch = "Warning" THEN TRUE
    ELSE FALSE

LastAlertAfter(branch, last, clock) ==
    IF branch = "Clear" THEN last ELSE clock

\* AlertManager::createCPUAlert
createCPUAlert(severity) ==
    AlertData(severity,
              IF severity = "Critical" THEN "CPU Critical" ELSE "CPU Warning",
              SrcCPU, FALSE)

\* AlertManager::createMemoryAlert
createMemoryAlert(severity) ==
    AlertData(severity,
              IF severity = "Critical" THEN "Memory Critical" ELSE "Memory Warning",
              SrcMemory, FALSE)

\* AlertManager::createTemperatureAlert
createTemperatureAlert(severity) ==
    AlertData(severity,
              IF severity = "Critical" THEN "Temperature Critical"
              ELSE "Temperature Warning",
              SrcTemperature, FALSE)

\* the create function the block of a source calls
createAlert(source, severity) ==
    CASE source = "CPU" -> createCPUAlert(severity)
      [] source = "Memory" -> createMemoryAlert(severity)
      [] source = "Temperature" -> createTemperatureAlert(severity)

\* the first access of the block of a source: the tests of the value against
\* the thresholds choose the condition whose shouldCreate*Alert is called, or
\* the else branch
FirstAccess(source, value) ==
    IF value >= CriticalThreshold(source) THEN <<"readFlag", "Critical">>
    ELSE IF value >= WarningThreshold(source) THEN <<"readFlag", "Warning">>
    ELSE <<"clearFirst", "Clear">>

\* the access after shouldCreate*Alert(severity) returned create: the body of
\* the if, the condition of the else if, or the else branch
AfterCondition(source, value, severity, create) ==
    IF create THEN <<"addAlert", severity>>
    ELSE IF severity = "Critical" /\ value >= WarningThreshold(source)
    THEN <<"readFlag", "Warning">>
    ELSE <<"clearFirst", "Clear">>

\* a call at the first access of the block of a source
EnterBlock(call, source) ==
    LET first == FirstAccess(source, ValueOf(source, call)) IN
    [call EXCEPT !.source = source, !.pc = first[1], !.severity = first[2],
                 !.isActive = FALSE, !.alert = NoAlert, !.clock = InvalidTime]

\* a call after the last access of a block: checkCPUThresholds goes on to
\* the temperature, and the call returns after that and after the memory
AfterBlock(call) ==
    IF call.name = "checkCPUThresholds" /\ call.source = "CPU"
    THEN EnterBlock(call, "Temperature")
    ELSE NotCalling

\* the flag the else branch of a source assigns first: lines 144, 162, 186
ClearedFirst(source) == IF source = "Memory" THEN "Warning" ELSE "Critical"

\* one assignment of an else branch
Cleared(mine, flag) ==
    IF flag = "Critical"
    THEN [mine EXCEPT !.critical = CriticalActiveAfter("Clear", @)]
    ELSE [mine EXCEPT !.warning = WarningActiveAfter("Clear", @)]

\* the members of the engine and the records about the evaluations when a
\* call begins
Snapshot ==
    [members |-> Members, alerts |-> m_alerts, lastFired |-> lastFired,
     evalHist |-> evalHist]

\* the call of checkCPUThresholds(args) or checkMemoryThresholds(args)
Entering(name, args) ==
    EnterBlock([NotCalling EXCEPT !.name = name, !.args = args,
                                  !.before = Snapshot],
               IF name = "checkCPUThresholds" THEN "CPU" ELSE "Memory")

\* AlertManager::checkCPUThresholds and checkMemoryThresholds: the access a
\* call is at, as the call after it, the members of its source after it and
\* whether it is the addAlert call
ThresholdStep(call) ==
    LET source == call.source
        severity == call.severity
        mine == Members[source]
        same == [call |-> call, members |-> mine, adds |-> FALSE]
    IN  CASE call.pc = "readFlag" ->
                 [same EXCEPT !.call =
                     [call EXCEPT !.pc = "readTime",
                                  !.isActive = IF severity = "Critical"
                                               THEN mine.critical
                                               ELSE mine.warning]]
          [] call.pc = "readTime" ->
                 LET create == shouldCreateAlert(call.isActive, mine.last)
                     after == AfterCondition(source, ValueOf(source, call),
                                             severity, create)
                 IN  [same EXCEPT !.call =
                         [call EXCEPT !.pc = after[1], !.severity = after[2],
                                      !.isActive = FALSE,
                                      !.alert = IF create
                                                THEN createAlert(source, severity)
                                                ELSE NoAlert]]
          [] call.pc = "addAlert" ->
                 [same EXCEPT !.call = [call EXCEPT !.pc = "setFlag"],
                              !.adds = TRUE]
          [] call.pc = "setFlag" ->
                 [same EXCEPT !.call = [call EXCEPT !.pc = "readClock"],
                              !.members =
                                  [mine EXCEPT
                                      !.critical = CriticalActiveAfter(severity, @),
                                      !.warning = WarningActiveAfter(severity, @)]]
          [] call.pc = "readClock" ->
                 [same EXCEPT !.call = [call EXCEPT !.pc = "setTime",
                                                    !.clock = now]]
          [] call.pc = "setTime" ->
                 [same EXCEPT !.call = AfterBlock(call),
                              !.members =
                                  [mine EXCEPT
                                      !.last = LastAlertAfter(severity, @,
                                                              call.clock)]]
          [] call.pc = "clearFirst" ->
                 [same EXCEPT !.call = [call EXCEPT !.pc = "clearSecond"],
                              !.members = Cleared(mine, ClearedFirst(source))]
          [] call.pc = "clearSecond" ->
                 [same EXCEPT !.call = AfterBlock(call),
                              !.members =
                                  Cleared(mine,
                                          IF ClearedFirst(source) = "Critical"
                                          THEN "Warning" ELSE "Critical")]

\* class of an evaluated value against the thresholds of its source
Classify(value, warning, critical) ==
    IF value >= critical THEN "crit"
    ELSE IF value >= warning THEN "warn"
    ELSE "low"

\* the records kept about the evaluations: an alert of the source was added
\* in the branch, and the block of the source was left, entered with a value
\* of class cls
FiredAfter(fired, source, branch) ==
    IF branch = "Clear" THEN fired
    ELSE [fired EXCEPT ![<<source, branch>>] = now]

HistAfter(hist, source, cls) ==
    [hist EXCEPT ![source] = <<@[2], cls>>]

AllCriticalAfter(all, source, cls) ==
    [all EXCEPT ![source] = @ /\ cls = "crit"]

\* thread t makes the access its call is at
ThresholdAccess(t, call) ==
    \E step \in {ThresholdStep(call)} :
    \E log \in {IF step.adds
                THEN addAlert([alerts |-> m_alerts, emitted |-> call.emitted],
                              call.alert)
                ELSE [alerts |-> m_alerts, emitted |-> call.emitted]} :
    LET source == call.source
        leaves == step.call.pc = "idle" \/ step.call.source # source
        cls == Classify(ValueOf(source, call), WarningThreshold(source),
                        CriticalThreshold(source))
    IN  /\ calls' = [calls EXCEPT ![t] =
               IF step.call.pc = "idle" THEN NotCalling
               ELSE [step.call EXCEPT !.emitted = log.emitted]]
        /\ AssignMembers(source, step.members)
        /\ m_alerts' = log.alerts
        /\ emitted' = log.emitted
        /\ lastFired' = IF step.adds
                        THEN FiredAfter(lastFired, source, call.severity)
                        ELSE lastFired
        /\ evalHist' = IF leaves THEN HistAfter(evalHist, source, cls)
                       ELSE evalHist
        /\ allCritical' = IF leaves THEN AllCriticalAfter(allCritical, source, cls)
                          ELSE allCritical
        /\ UNCHANGED <<now, m_maxAlertsHistory, m_nextAlertId, monitorVars,
                       tickHistoryVars, rateVars>>

\* a thread calls checkCPUThresholds (slot of CPUMonitor::cpuDataUpdated) and
\* makes the first access of the call
CallCPU(t, bound, inputs) ==
    /\ steps < bound
    /\ calls[t].pc = "idle"
    /\ \E data \in inputs :
        /\ ThresholdAccess(t, Entering("checkCPUThresholds", data))
        /\ op' = Operation("checkCPUThresholds", data)
    /\ steps' = steps + 1
    /\ UNCHANGED dm

\* a thread calls checkMemoryThresholds (slot of
\* MemoryMonitor::memoryDataUpdated) and makes the first access of the call
CallMemory(t, bound, inputs) ==
    /\ steps < bound
    /\ calls[t].pc = "idle"
    /\ \E usagePercentage \in inputs :
        /\ ThresholdAccess(t, Entering("checkMemoryThresholds", <<usagePercentage>>))
        /\ op' = Operation("checkMemoryThresholds", <<usagePercentage>>)
    /\ steps' = steps + 1
    /\ UNCHANGED dm

\* a thread inside a call makes its next access
NextAccess(t) ==
    /\ calls[t].pc # "idle"
    /\ ThresholdAccess(t, calls[t])
    /\ UNCHANGED <<op, steps, dm>>

\* no thread is inside a call of the threshold evaluation
NoCall == \A t \in Threads : calls[t].pc = "idle"

\* the thread that owns the engine calls it: main.cpp creates every object in
\* the main thread
CheckCPUThresholds == CallCPU("main", MaxSteps, CPUInputs)
CheckMemoryThresholds == CallMemory("main", MaxSteps, MemoryInputs)
MainNextAccess == NextAccess("main")

\* ------------------------------------------------------------------------
\* The rate computation
\* ------------------------------------------------------------------------
\* the early return of calculateCPUUsage taken for a zero delta only
NoElapsedTime_NegativeOnly(totalDiff) == totalDiff < 0

\* the early return of calculateCPUUsage: if (totalDiff <= 0) return 0.0
NoElapsedTime(totalDiff) == totalDiff <= 0

\* (1.0 - static_cast<double>(idleDiff) / totalDiff) * 100.0
UsageOf(idleDiff, totalDiff) == Rat(100 * (totalDiff - idleDiff), totalDiff)

\* SystemUtils::calculateCPUUsage: the value it returns, and the divisors of
\* the divisions it performed
calculateCPUUsage(totalTime, idleTime, lastTotalTime, lastIdleTime) ==
    LET totalDiff == totalTime - lastTotalTime
        idleDiff == idleTime - lastIdleTime
    IN  IF NoElapsedTime(totalDiff)
        THEN [value |-> RatZero, divisors |-> <<>>]
        ELSE [value |-> qMax(RatZero, qMin(RatHundred, UsageOf(idleDiff, totalDiff))),
              divisors |-> <<totalDiff>>]

\* qBound(0.0, usage, 100.0) returning usage as it is
qBoundUsage_Unclamped(usage) == usage

\* the last line of CPUMonitor::calculateUsagePercent
qBoundUsage(usage) == qBoundDouble(RatZero, usage, RatHundred)

\* CPUMonitor::calculateUsagePercent taking the counters since boot, whatever
\* the previous snapshot is
calculateUsagePercent_SinceBoot(currentStats, previousStats) ==
    IF total(currentStats) <= 0
    THEN [value |-> RatZero, divisors |-> <<>>]
    ELSE [value |-> qBoundUsage(UsageOf(currentStats.idle, total(currentStats))),
          divisors |-> <<total(currentStats)>>]

\* CPUMonitor::calculateUsagePercent on the monitor's two counter snapshots
calculateUsagePercent(currentStats, previousStats) ==
    LET totalDiff == total(currentStats) - total(previousStats)
        idleDiff == currentStats.idle - previousStats.idle
    IN  IF totalDiff <= 0
        THEN [value |-> RatZero, divisors |-> <<>>]
        ELSE [value |-> qBoundUsage(UsageOf(idleDiff, totalDiff)),
              divisors |-> <<totalDiff>>]

\* ------------------------------------------------------------------------
\* CPUMonitor and MemoryMonitor: the four phases of a tick
\* ------------------------------------------------------------------------
\* SystemUtils::isValidPercentage / isValidTemperature (thousandths of a degree)
isValidPercentage(value) ==
    ~RatLess(value, RatZero) /\ ~RatLess(RatHundred, value)

isValidTemperature(milliC) ==
    milliC >= MIN_TEMPERATURE * 1000 /\ milliC <= MAX_TEMPERATURE * 1000

\* SystemUtils::getCPUTemperature: 0.0 when unreadable or out of range
getCPUTemperature(raw) ==
    IF ~raw.tempOk THEN 0
    ELSE IF ~isValidTemperature(raw.tempMilliC) THEN 0
    ELSE raw.tempMilliC

\* the loop of CPUMonitor::collectCPUStats over the lines of the cores, its
\* first n rounds: the counters of core i (index i - 1 in the code) are
\* assigned when its line is there and parses, and stay as they are
\* otherwise
collectCoreStats(coreStats, raw, n) ==
    [i \in DOMAIN coreStats |->
        IF i <= n /\ raw.statOk /\ i <= Len(raw.cores) /\ raw.cores[i].ok
        THEN CPUStat(raw.cores[i].busy, raw.cores[i].idle)
        ELSE coreStats[i]]

\* collectCoreData leaving every core's usage as it was
collectCoreData_Unchanged(self) == self

\* CPUMonitor::collectCoreData: the entry of each core gets its index, and
\* its usage when time has elapsed on the core's counters
collectCoreData(self) ==
    [self EXCEPT !.m_currentData.cores =
        [i \in 1..self.m_currentData.coreCount |->
            LET totalDiff == total(self.m_coreStats[i]) - total(self.m_previousCoreStats[i])
                idleDiff == self.m_coreStats[i].idle - self.m_previousCoreStats[i].idle
            IN  [coreID |-> i - 1,
                 usage |-> IF totalDiff > 0
                           THEN qBoundDouble(RatZero, UsageOf(idleDiff, totalDiff), RatHundred)
                           ELSE self.m_currentData.cores[i].usage]]]

\* CPUMonitor::collectCPUStats: nothing is assigned when /proc/stat is empty
\* or unreadable; the aggregate counters are assigned when the first line is
\* "cpu" with seven counters or more; the lines of the cores are gone
\* through whatever the first line is.  n is the number of rounds of that
\* loop that have run
collectCPUStats(self, raw, n) ==
    [self EXCEPT
        !.m_currentStats = IF raw.statOk /\ raw.cpuLineOk
                           THEN CPUStat(raw.busy, raw.idle) ELSE @,
        !.m_coreStats = collectCoreStats(@, raw, n)]

\* CPUMonitor::collectTemperature
collectTemperature(self, raw) ==
    [self EXCEPT !.m_currentData.temperature = getCPUTemperature(raw)]

\* CPUMonitor::collectData as the states of the monitor at the places where
\* a call that reads a file or allocates is next, and at its end: the
\* baseline saved (readFile is next); in collectCPUStats the first line
\* assigned and then one more line of a core each time (the split of the
\* next line is next, and after the last line the read of the thermal
\* zone); collectTemperature done (the read of the frequency and, in
\* collectCoreData, the detach of cores are next); then collectCoreData
CPUMonitor_collectStages(self, raw) ==
    LET saved == [self EXCEPT !.m_previousStats = self.m_currentStats,
                              !.m_previousCoreStats = self.m_coreStats]
        lines == Len(self.m_coreStats)
        counted == [j \in 1..(lines + 1) |-> collectCPUStats(saved, raw, j - 1)]
        measured == collectTemperature(counted[lines + 1], raw)
    IN  <<saved>> \o counted \o <<measured, collectCoreData(measured)>>

\* CPUMonitor::collectData
CPUMonitor_collectData(self, raw) ==
    LET stages == CPUMonitor_collectStages(self, raw)
    IN  stages[Len(stages)]

\* CPUMonitor::determineStatus testing the usage before the temperature
CPUMonitor_determineStatus_UsageFirst(data) ==
    IF RatAtLeast(data.totalUsage, CPU_CRITICAL_THRESHOLD) THEN "Critical"
    ELSE IF RatAtLeast(data.totalUsage, CPU_WARNING_THRESHOLD) THEN "Warning"
    ELSE IF data.temperature >= TEMP_CRITICAL_THRESHOLD * 1000 THEN "Critical"
    ELSE IF data.temperature >= TEMP_WARNING_THRESHOLD * 1000 THEN "Warning"
    ELSE "Normal"

\* CPUMonitor::determineStatus: the temperature first, then the usage
CPUMonitor_determineStatus(data) ==
    IF data.temperature >= TEMP_CRITICAL_THRESHOLD * 1000 THEN "Critical"
    ELSE IF data.temperature >= TEMP_WARNING_THRESHOLD * 1000 THEN "Warning"
    ELSE IF RatAtLeast(data.totalUsage, CPU_CRITICAL_THRESHOLD) THEN "Critical"
    ELSE IF RatAtLeast(data.totalUsage, CPU_WARNING_THRESHOLD) THEN "Warning"
    ELSE "Normal"

\* CPUMonitor::processData
CPUMonitor_processData(self, time) ==
    LET usage == calculateUsagePercent(self.m_currentStats, self.m_previousStats).value
        derived == [self.m_currentData EXCEPT !.totalUsage = usage]
    IN  [self EXCEPT !.m_currentData =
            [derived EXCEPT !.status = CPUMonitor_determineStatus(derived),
                            !.timestamp = time]]

\* CPUMonitor::validateData
CPUMonitor_validateData(self) ==
    [self EXCEPT
        !.m_currentData.totalUsage = IF isValidPercentage(@) THEN @ ELSE RatZero,
        !.m_currentData.temperature = IF isValidTemperature(@) THEN @ ELSE 0,
        !.m_currentData.cores =
            [i \in DOMAIN @ |->
                [@[i] EXCEPT !.usage = IF isValidPercentage(@) THEN @ ELSE RatZero]]]

\* the update of the history at the end of emitSignal: append, then drop the
\* first entry when over the size
UpdateHistory(self) ==
    LET appended == Append(self.m_history, self.m_currentData)
    IN  [self EXCEPT !.m_history =
            IF Len(appended) > self.m_maxHistorySize THEN Tail(appended)
            ELSE appended]

\* the signals CPUMonitor::emitSignal emits, in order
CPUMonitor_signals(data) ==
    <<MonitorSignal("cpuDataUpdated", data)>>
    \o (IF data.temperature >= TEMP_CRITICAL_THRESHOLD * 1000
        THEN <<MonitorSignal("temperatureCritical", <<data.temperature>>)>>
        ELSE IF data.temperature >= TEMP_WARNING_THRESHOLD * 1000
        THEN <<MonitorSignal("temperatureWarning", <<data.temperature>>)>>
        ELSE <<>>)
    \o (IF RatAtLeast(data.totalUsage, CPU_CRITICAL_THRESHOLD)
        THEN <<MonitorSignal("usageCritical", data.totalUsage)>>
        ELSE IF RatAtLeast(data.totalUsage, CPU_WARNING_THRESHOLD)
        THEN <<MonitorSignal("usageWarning", data.totalUsage)>>
        ELSE <<>>)

\* MemoryMonitor::collectSwapInfo: swapTotal is assigned when the line
\* SwapTotal matches, and swapUsed, from the swapTotal the monitor then has,
\* when the line SwapFree matches
collectSwapInfo(self, raw) ==
    LET sized == IF raw.swap.totalOk
                 THEN [self EXCEPT !.m_currentData.swapTotal = raw.swap.swapTotal]
                 ELSE self
    IN  IF raw.swap.freeOk
        THEN [sized EXCEPT !.m_currentData.swapUsed =
                               sized.m_currentData.swapTotal - raw.swap.swapFree]
        ELSE sized

\* MemoryMonitor::collectData as the states of the monitor at the places
\* where a read of /proc/meminfo or a match of one of its lines is next, and
\* at its end: collectMemoryInfo assigns totalRAM, then availableRAM (usedRAM
\* is not assigned); collectSwapInfo assigns swapTotal, matches the line
\* SwapFree and assigns swapUsed
MemoryMonitor_collectStages(self, raw) ==
    LET sized == [self EXCEPT !.m_currentData.totalRAM = getTotalMemory(raw)]
        available == [sized EXCEPT
                         !.m_currentData.availableRAM = getAvailableMemory(raw)]
        swapSized == collectSwapInfo(available, [raw EXCEPT !.swap.freeOk = FALSE])
    IN  <<self, sized, available, swapSized, collectSwapInfo(available, raw)>>

\* MemoryMonitor::collectData
MemoryMonitor_collectData(self, raw) ==
    LET stages == MemoryMonitor_collectStages(self, raw)
    IN  stages[Len(stages)]

\* MemoryMonitor::calculateUsagePercent
MemoryMonitor_calculateUsagePercent(data) ==
    IF data.totalRAM <= 0 THEN RatZero
    ELSE qBoundDouble(RatZero, Rat(100 * data.usedRAM, data.totalRAM), RatHundred)

\* MemoryMonitor::calculateSwapPercent
calculateSwapPercent(data) ==
    IF data.swapTotal <= 0 THEN RatZero
    ELSE qBoundDouble(RatZero, Rat(100 * data.swapUsed, data.swapTotal), RatHundred)

\* MemoryMonitor::determineStatus
MemoryMonitor_determineStatus(data) ==
    IF RatAtLeast(data.usagePercentage, RAM_CRITICAL_THRESHOLD) THEN "Critical"
    ELSE IF RatAtLeast(data.usagePercentage, RAM_WARNING_THRESHOLD) THEN "Warning"
    ELSE IF data.availableRAM < LOW_MEMORY_THRESHOLD THEN "Warning"
    ELSE "Normal"

\* MemoryMonitor::processData
MemoryMonitor_processData(self, time) ==
    LET derived == [self.m_currentData EXCEPT
                       !.usagePercentage = MemoryMonitor_calculateUsagePercent(self.m_currentData),
                       !.swapPercentage = calculateSwapPercent(self.m_currentData)]
    IN  [self EXCEPT !.m_currentData =
            [derived EXCEPT !.status = MemoryMonitor_determineStatus(derived),
                            !.timestamp = time]]

\* MemoryMonitor::validateData
MemoryMonitor_validateData(self) ==
    [self EXCEPT
        !.m_currentData.usagePercentage = IF isValidPercentage(@) THEN @ ELSE RatZero,
        !.m_currentData.swapPercentage = IF isValidPercentage(@) THEN @ ELSE RatZero,
        !.m_currentData.totalRAM = IF @ < 0 THEN 0 ELSE @,
        !.m_currentData.usedRAM = IF @ < 0 THEN 0 ELSE @,
        !.m_currentData.availableRAM = IF @ < 0 THEN 0 ELSE @]

\* the signals MemoryMonitor::emitSignal emits, in order
MemoryMonitor_signals(data) ==
    <<MonitorSignal("memoryDataUpdated", data)>>
    \o (IF RatAtLeast(data.usagePercentage, RAM_CRITICAL_THRESHOLD)
        THEN <<MonitorSignal("memoryCritical", data.usagePercentage)>>
        ELSE IF RatAtLeast(data.usagePercentage, RAM_WARNING_THRESHOLD)
        THEN <<MonitorSignal("memoryWarning", data.usagePercentage)>>
        ELSE <<>>)
    \o (IF RatLess(Rat(SwapWarningPercent, 1), data.swapPercentage)
        THEN <<MonitorSignal("swapWarning", data.swapPercentage)>>
        ELSE <<>>)
    \o (IF data.availableRAM < LOW_MEMORY_THRESHOLD
        THEN <<MonitorSignal("lowMemoryAlert", <<data.availableRAM>>)>>
        ELSE <<>>)

\* the virtual calls of BaseMonitor::onTimerTick, dispatched on the class
Readings(k) == IF k = "cpu" THEN CPUReadings ELSE MemoryReadings

collectStages(k, self, raw) ==
    IF k = "cpu" THEN CPUMonitor_collectStages(self, raw)
    ELSE MemoryMonitor_collectStages(self, raw)

collectData(k, self, raw) ==
    IF k = "cpu" THEN CPUMonitor_collectData(self, raw)
    ELSE MemoryMonitor_collectData(self, raw)

processData(k, self, time) ==
    IF k = "cpu" THEN CPUMonitor_processData(self, time)
    ELSE MemoryMonitor_processData(self, time)

validateData(k, self) ==
    IF k = "cpu" THEN CPUMonitor_validateData(self)
    ELSE MemoryMonitor_validateData(self)

\* emitSignal: the signals first, then the history
emitSignal(k, self) ==
    [self |-> UpdateHistory(self),
     signals |-> IF k = "cpu" THEN CPUMonitor_signals(self.m_currentData)
                 ELSE MemoryMonitor_signals(self.m_currentData)]

\* the snapshot-updated signal of a class
DataSignal(k) == IF k = "cpu" THEN "cpuDataUpdated" ELSE "memoryDataUpdated"

\* BaseMonitor::updateTimestamp
updateTimestamp(self, time) == [self EXCEPT !.m_lastUpdateTime = time]

\* ------------------------------------------------------------------------
\* BaseMonitor: the lifecycle and onTimerTick
\* ------------------------------------------------------------------------
\* the monitor's operations do not touch the alert engine
AlertManagerUnchanged ==
    UNCHANGED <<m_alerts, m_maxAlertsHistory, m_nextAlertId, cpuVars,
                memoryVars, tempVars, historyVars, rateVars, dm>>

Phases == {"collect", "process", "validate", "publish"}

\* BaseMonitor::startMonitoring with its early return left out
AlreadyMonitoring_Never(isMonitoring) == FALSE

\* the early return of startMonitoring: if (m_isMonitoring) return
AlreadyMonitoring(isMonitoring) == isMonitoring

\* BaseMonitor::startMonitoring
DoStartMonitoring ==
    /\ IF AlreadyMonitoring(m_isMonitoring)
       THEN /\ emitted' = <<>>
            /\ UNCHANGED <<m_isMonitoring, m_isPaused, timerActive>>
       ELSE /\ m_isMonitoring' = TRUE
            /\ m_isPaused' = FALSE
            /\ timerActive' = TRUE
            /\ emitted' = <<MonitorSignal("monitoringStarted", <<>>)>>
    /\ op' = Operation("startMonitoring", <<>>)
    /\ steps' = steps + 1
    /\ UNCHANGED <<now, kind, monitor, m_dataMutex, tickPc, readResult,
                   tickHistoryVars>>
    /\ AlertManagerUnchanged

\* the timer is started on the monitor's thread, which is then not in a tick
StartMonitoring ==
    /\ steps < MaxMonSteps
    /\ tickPc = "idle"
    /\ DoStartMonitoring

\* BaseMonitor::stopMonitoring, called on any thread: it takes no lock and
\* waits for nothing
StopMonitoring ==
    /\ steps < MaxMonSteps
    /\ IF ~m_isMonitoring
       THEN /\ emitted' = <<>>
            /\ UNCHANGED <<m_isMonitoring, m_isPaused, timerActive>>
       ELSE /\ timerActive' = FALSE
            /\ m_isMonitoring' = FALSE
            /\ m_isPaused' = FALSE
            /\ emitted' = <<MonitorSignal("monitoringStopped", <<>>)>>
    /\ op' = Operation("stopMonitoring", <<>>)
    /\ steps' = steps + 1
    /\ UNCHANGED <<now, kind, monitor, m_dataMutex, tickPc, readResult,
                   tickHistoryVars>>
    /\ AlertManagerUnchanged

\* BaseMonitor::pauseMonitoring
PauseMonitoring ==
    /\ steps < MaxMonSteps
    /\ m_isPaused' = TRUE
    /\ emitted' = <<>>
    /\ op' = Operation("pauseMonitoring", <<>>)
    /\ steps' = steps + 1
    /\ UNCHANGED <<now, kind, monitor, m_isMonitoring, timerActive, m_dataMutex,
                   tickPc, readResult, tickHistoryVars>>
    /\ AlertManagerUnchanged

\* BaseMonitor::resumeMonitoring
ResumeMonitoring ==
    /\ steps < MaxMonSteps
    /\ m_isPaused' = FALSE
    /\ emitted' = <<>>
    /\ op' = Operation("resumeMonitoring", <<>>)
    /\ steps' = steps + 1
    /\ UNCHANGED <<now, kind, monitor, m_isMonitoring, timerActive, m_dataMutex,
                   tickPc, readResult, tickHistoryVars>>
    /\ AlertManagerUnchanged

\* CPUMonitor::setHistorySize / MemoryMonitor::setHistorySize
DoSetHistorySize(size) ==
    LET bounded == qBound(MIN_HISTORY_SIZE, size, LIMIT_HISTORY_SIZE) IN
    /\ monitor' = [monitor EXCEPT !.m_maxHistorySize = bounded]
    /\ constTicks' = IF bounded = monitor.m_maxHistorySize THEN constTicks ELSE 0
    /\ resizes' = resizes + 1
    /\ emitted' = <<>>
    /\ op' = Operation("setHistorySize", <<size>>)
    /\ steps' = steps + 1
    /\ UNCHANGED <<now, kind, m_isMonitoring, m_isPaused, timerActive,
                   m_dataMutex, tickPc, readResult, tickLog, tickStart,
                   tickFault, published>>
    /\ AlertManagerUnchanged

\* onTimerTick returning at once while paused, with the test left out
SkippedWhilePaused_Never(isPaused) == FALSE

\* the first line of onTimerTick: if (m_isPaused) return
SkippedWhilePaused(isPaused) == isPaused

\* QMutexLocker on m_dataMutex: the caller goes on once the mutex is free
MutexFree(mutex) == mutex = "free"

\* the timer expires one interval after the last expiry (or the start) and
\* onTimerTick begins on the monitor's thread: it returns at once while
\* paused, and locks m_dataMutex otherwise
TimerExpiry ==
    /\ steps < MaxMonSteps
    /\ timerActive
    /\ tickPc = "idle"
    /\ now' = now + UPDATE_INTERVAL
    /\ IF SkippedWhilePaused(m_isPaused)
       THEN /\ op' = Operation("onTimerTick", <<"skipped">>)
            /\ UNCHANGED <<m_dataMutex, tickPc, tickLog, tickStart, tickFault>>
       ELSE /\ MutexFree(m_dataMutex)
            /\ m_dataMutex' = "tick"
            /\ tickPc' = "collect"
            /\ tickLog' = <<>>
            /\ tickStart' = monitor
            /\ tickFault' = "none"
            /\ op' = Operation("onTimerTick", <<"begun">>)
    /\ emitted' = <<>>
    /\ steps' = steps + 1
    /\ UNCHANGED <<kind, monitor, m_isMonitoring, m_isPaused, timerActive,
                   readResult, published, constTicks, resizes>>
    /\ AlertManagerUnchanged

\* what a phase other than the last leaves unchanged
PhaseFrame ==
    /\ emitted' = <<>>
    /\ steps' = steps + 1
    /\ UNCHANGED <<now, kind, m_isMonitoring, m_isPaused, timerActive,
                   m_dataMutex, readResult, tickHistoryVars>>
    /\ AlertManagerUnchanged

\* collectData(), with what the raw source returns
CollectPhase ==
    /\ steps < MaxMonSteps
    /\ tickPc = "collect"
    /\ \E raw \in Readings(kind) :
        /\ monitor' = collectData(kind, monitor, raw)
        /\ op' = Operation("collectData", <<raw>>)
    /\ tickPc' = "process"
    /\ PhaseFrame

\* processData()
ProcessPhase ==
    /\ steps < MaxMonSteps
    /\ tickPc = "process"
    /\ monitor' = processData(kind, monitor, now)
    /\ op' = Operation("processData", <<>>)
    /\ tickPc' = "validate"
    /\ PhaseFrame

\* validateData()
ValidatePhase ==
    /\ steps < MaxMonSteps
    /\ tickPc = "validate"
    /\ monitor' = validateData(kind, monitor)
    /\ op' = Operation("validateData", <<>>)
    /\ tickPc' = "publish"
    /\ PhaseFrame

\* emitSignal(), updateTimestamp(), emit dataUpdated(), and the end of the
\* QMutexLocker's scope, applied to the data members.  The step that follows
\* the slot of the snapshot signal (pc "notified") emits what is left to
\* emit, the snapshot signal having been emitted by the step before the slot
Publish(k, self, time) ==
    LET sent == emitSignal(k, self)
    IN  [self |-> updateTimestamp(sent.self, time),
         signals |-> sent.signals \o <<MonitorSignal("dataUpdated", <<>>)>>]

PublishPhaseFrom(pc) ==
    /\ steps < MaxMonSteps
    /\ tickPc = pc
    /\ LET done == Publish(kind, monitor, now) IN
        /\ monitor' = done.self
        /\ emitted' = IF pc = "notified" THEN Tail(done.signals)
                      ELSE done.signals
        /\ tickLog' = tickLog \o done.signals
        /\ published' = Append(published, monitor.m_currentData)
    /\ constTicks' = constTicks + 1
    /\ m_dataMutex' = "free"
    /\ tickPc' = "idle"
    /\ op' = Operation("emitSignal", <<>>)
    /\ steps' = steps + 1
    /\ UNCHANGED <<now, kind, m_isMonitoring, m_isPaused, timerActive,
                   readResult, tickStart, tickFault, resizes>>
    /\ AlertManagerUnchanged

PublishPhase == PublishPhaseFrom("publish")

\* emitSignal() up to its first line, emit cpuDataUpdated(m_currentData) /
\* memoryDataUpdated(m_currentData): a slot of a consumer connected to the
\* signal on the monitor's thread begins, inside the emission, the tick
\* holding m_dataMutex
NotifyPhase ==
    /\ steps < MaxMonSteps
    /\ tickPc = "publish"
    /\ tickPc' = "notify"
    /\ emitted' = <<MonitorSignal(DataSignal(kind), monitor.m_currentData)>>
    /\ op' = Operation("emitSignal", <<DataSignal(kind)>>)
    /\ steps' = steps + 1
    /\ UNCHANGED <<now, kind, monitor, m_isMonitoring, m_isPaused, timerActive,
                   m_dataMutex, readResult, tickHistoryVars>>
    /\ AlertManagerUnchanged

\* the consumer's slot: it returns, or it calls getCurrentData or getHistory
\* of the monitor first; the call locks m_dataMutex, a QMutex that is not
\* recursive, and goes on once the mutex is free
ConsumerCalls == {"none", "getCurrentData", "getHistory"}

ConsumerSlot ==
    /\ steps < MaxMonSteps
    /\ tickPc = "notify"
    /\ \E call \in ConsumerCalls :
        /\ op' = Operation("slot", <<call>>)
        /\ IF call = "none"
           THEN tickPc' = "notified" /\ UNCHANGED readResult
           ELSE IF MutexFree(m_dataMutex)
           THEN /\ tickPc' = "notified"
                /\ readResult' =
                       [call |-> call,
                        data |-> IF call = "getCurrentData"
                                 THEN monitor.m_currentData ELSE monitor.m_history]
           ELSE /\ tickPc' = "blocked"
                /\ readResult' = [call |-> call, waitsFor |-> m_dataMutex]
    /\ emitted' = <<>>
    /\ steps' = steps + 1
    /\ UNCHANGED <<now, kind, monitor, m_isMonitoring, m_isPaused, timerActive,
                   m_dataMutex, tickHistoryVars>>
    /\ AlertManagerUnchanged

\* the slot has returned: the rest of emitSignal() and of the tick
FinishPhase == PublishPhaseFrom("notified")

\* what the phase that raises has done before it raises, the data members
\* and the signals emitted.
\*   collectData raises where it reads a file or allocates, with what it
\*     has assigned by then.
\*   processData raises in its last statement, the call of
\*     QDateTime::currentDateTime: the usage (and the swap percentage) and
\*     the status are assigned, the timestamp is not.
\*   validateData raises in a call of isValidPercentage or
\*     isValidTemperature: the fields tested before that call are validated,
\*     the others are not.
\*   The publish phase raises inside one of the emissions of emitSignal (a
\*     slot raises), the first included, with the signals up to that one
\*     emitted and the history as it was; or in the append to the history,
\*     all of emitSignal's signals emitted; or after the append, in
\*     removeFirst or in the currentDateTime of updateTimestamp, the history
\*     appended to and m_lastUpdateTime as it was; or inside the emission of
\*     dataUpdated, everything done.
BeforeFault(k, self, phase, raw, time) ==
    IF phase = "collect"
    THEN LET stages == collectStages(k, self, raw)
         IN  {[self |-> stages[i], signals |-> <<>>] : i \in 1..Len(stages) - 1}
    ELSE IF phase = "process"
    THEN {[self |-> [processData(k, self, time) EXCEPT
                        !.m_currentData.timestamp = self.m_currentData.timestamp],
           signals |-> <<>>]}
    ELSE IF phase = "validate"
    THEN LET done == validateData(k, self).m_currentData
             first == IF k = "cpu"
                      THEN [self EXCEPT !.m_currentData.totalUsage = done.totalUsage]
                      ELSE [self EXCEPT
                               !.m_currentData.usagePercentage = done.usagePercentage]
             cores(n) == [first EXCEPT
                             !.m_currentData.temperature = done.temperature,
                             !.m_currentData.cores =
                                 [i \in DOMAIN @ |->
                                     IF i <= n THEN done.cores[i] ELSE @[i]]]
         IN  {[self |-> checked, signals |-> <<>>] :
                 checked \in {self, first}
                     \cup (IF k = "cpu"
                           THEN {cores(n) : n \in 0..(self.m_currentData.coreCount - 1)}
                           ELSE {})}
    ELSE LET sent == emitSignal(k, self)
             done == Publish(k, self, time)
             appended == [self EXCEPT
                             !.m_history = Append(@, self.m_currentData)]
         IN  {[self |-> self, signals |-> SubSeq(sent.signals, 1, j)] :
                 j \in 1..Len(sent.signals)}
             \cup {[self |-> appended, signals |-> sent.signals],
                   [self |-> sent.self, signals |-> sent.signals],
                   done}

\* a phase raises std::exception: the QMutexLocker unlocks and the catch
\* block of onTimerTick emits errorOccurred
Fault ==
    /\ steps < MaxMonSteps
    /\ tickPc \in Phases
    /\ \E raw \in Readings(kind) :
       \E raised \in BeforeFault(kind, monitor, tickPc, raw, now) :
        LET signals == raised.signals \o <<MonitorSignal("errorOccurred", <<>>)>>
        IN  /\ monitor' = raised.self
            /\ emitted' = signals
            /\ tickLog' = tickLog \o signals
            /\ published' = IF raised.signals # <<>>
                            THEN Append(published, monitor.m_currentData)
                            ELSE published
            /\ op' = Operation("fault", <<tickPc, raised.signals>>)
    /\ tickFault' = tickPc
    /\ m_dataMutex' = "free"
    /\ tickPc' = "idle"
    /\ steps' = steps + 1
    /\ UNCHANGED <<now, kind, m_isMonitoring, m_isPaused, timerActive,
                   readResult, tickStart, constTicks, resizes>>
    /\ AlertManagerUnchanged

\* what a call of an accessor leaves unchanged
ReadFrame ==
    /\ emitted' = <<>>
    /\ steps' = steps + 1
    /\ UNCHANGED <<now, kind, monitor, m_isMonitoring, m_isPaused, timerActive,
                   m_dataMutex, tickPc, tickHistoryVars>>
    /\ AlertManagerUnchanged

\* CPUMonitor::getCurrentData / MemoryMonitor::getCurrentData on another
\* thread: lock, copy, unlock
GetCurrentData ==
    /\ steps < MaxMonSteps
    /\ MutexFree(m_dataMutex)
    /\ readResult' = [call |-> "getCurrentData", data |-> monitor.m_currentData]
    /\ op' = Operation("getCurrentData", <<>>)
    /\ ReadFrame

\* CPUMonitor::getHistory / MemoryMonitor::getHistory on another thread
GetHistory ==
    /\ steps < MaxMonSteps
    /\ MutexFree(m_dataMutex)
    /\ readResult' = [call |-> "getHistory", data |-> monitor.m_history]
    /\ op' = Operation("getHistory", <<>>)
    /\ ReadFrame

\* BaseMonitor::onTimerTick as one step, one interval after the last: the four
\* phases, the timestamp and dataUpdated under the lock, with no fault
DoOnTimerTick(raw) ==
    LET begun == monitor
        time == now + UPDATE_INTERVAL
        collected == collectData(kind, begun, raw)
        processed == processData(kind, collected, time)
        validated == validateData(kind, processed)
        done == Publish(kind, validated, time)
    IN  /\ now' = time
        /\ monitor' = done.self
        /\ emitted' = done.signals
        /\ tickLog' = done.signals
        /\ tickStart' = begun
        /\ tickFault' = "none"
        /\ published' = Append(published, validated.m_currentData)
        /\ constTicks' = constTicks + 1
        /\ op' = Operation("onTimerTick", <<raw>>)
        /\ steps' = steps + 1
        /\ UNCHANGED <<kind, m_isMonitoring, m_isPaused, timerActive,
                       m_dataMutex, tickPc, readResult, resizes>>
        /\ AlertManagerUnchanged

\* BaseMonitor::onTimerTick as one step, one interval after the last, in
\* which a phase raises: the phases before it have run, the phase itself has
\* done what it does before it raises, and the catch block emits
\* errorOccurred
DoFaultedTick(raw) ==
    LET begun == monitor
        time == now + UPDATE_INTERVAL
        collected == collectData(kind, begun, raw)
        processed == processData(kind, collected, time)
        validated == validateData(kind, processed)
    IN  \E phase \in Phases :
        \E raised \in BeforeFault(kind,
                                 CASE phase = "collect" -> begun
                                   [] phase = "process" -> collected
                                   [] phase = "validate" -> processed
                                   [] phase = "publish" -> validated,
                                 phase, raw, time) :
        LET signals == raised.signals \o <<MonitorSignal("errorOccurred", <<>>)>>
        IN  /\ now' = time
            /\ monitor' = raised.self
            /\ emitted' = signals
            /\ tickLog' = signals
            /\ tickStart' = begun
            /\ tickFault' = phase
            /\ published' = IF raised.signals # <<>>
                            THEN Append(published, validated.m_currentData)
                            ELSE published
            /\ op' = Operation("fault", <<phase, raised.signals>>)
            /\ steps' = steps + 1
            /\ UNCHANGED <<kind, m_isMonitoring, m_isPaused, timerActive,
                           m_dataMutex, tickPc, readResult, constTicks, resizes>>
            /\ AlertManagerUnchanged

\* ------------------------------------------------------------------------
\* DataManager: the coordinator of the two monitors and the alert engine
\* ------------------------------------------------------------------------
\* The DataManager, its monitors and its alert engine live on one thread, so
\* each call of the DataManager is one step.  A tick of a monitor is a step up
\* to the emission of its snapshot signal, the slots connected to the signal
\* run inside the emission, a slot of the alert engine one step per access of
\* a member, as everywhere, and the rest of the tick is a step after the last
\* slot.  A call through an empty unique_ptr is undefined: the process ends
\* there, what the caller did before the call done, or the call is skipped
\* and the caller goes on.

\* BaseMonitor::startMonitoring on an owned monitor
startMonitoring(mon) ==
    IF ~mon.exists \/ AlreadyMonitoring(mon.m_isMonitoring) THEN mon
    ELSE [mon EXCEPT !.m_isMonitoring = TRUE,
                     !.m_isPaused = FALSE,
                     !.timerActive = TRUE,
                     !.timerInterval = mon.m_updateInterval]

\* BaseMonitor::stopMonitoring on an owned monitor
stopMonitoring(mon) ==
    IF ~mon.exists \/ ~mon.m_isMonitoring THEN mon
    ELSE [mon EXCEPT !.timerActive = FALSE,
                     !.m_isMonitoring = FALSE,
                     !.m_isPaused = FALSE]

\* BaseMonitor::pauseMonitoring / resumeMonitoring on an owned monitor
setPaused(mon, paused) ==
    IF ~mon.exists THEN mon ELSE [mon EXCEPT !.m_isPaused = paused]

\* BaseMonitor::setUpdateInterval storing the argument as it is
ClampInterval_Unclamped(intervalMs) == intervalMs

\* qMax(100, intervalMs)
ClampInterval(intervalMs) ==
    IF intervalMs < MIN_UPDATE_INTERVAL THEN MIN_UPDATE_INTERVAL ELSE intervalMs

\* BaseMonitor::setUpdateInterval on an owned monitor
setUpdateInterval(mon, intervalMs) ==
    IF ~mon.exists THEN mon
    ELSE [mon EXCEPT !.m_updateInterval = ClampInterval(intervalMs),
                     !.timerInterval = IF mon.m_isMonitoring
                                       THEN ClampInterval(intervalMs) ELSE @]

\* the three std::make_unique assignments of one try block of initialize:
\* construction number base + 1 makes the CPU monitor, base + 2 the memory
\* monitor, base + 3 the alert engine; the first one in throws raises
\* std::exception and leaves its pointer and the later ones as they were; an
\* object that is replaced is destroyed, and its connections with it
Construct(d, base, throws) ==
    LET failed == IF (base + 1) \in throws THEN 1
                  ELSE IF (base + 2) \in throws THEN 2
                  ELSE IF (base + 3) \in throws THEN 3
                  ELSE 4
    IN  [d |-> [d EXCEPT
                  !.monitors = [k \in Kinds |->
                                  IF failed > (IF k = "cpu" THEN 1 ELSE 2)
                                  THEN BaseMonitor(k) ELSE @[k]],
                  !.m_alertManager = (failed > 3) \/ @,
                  !.connections =
                      SelectSeq(@, LAMBDA c :
                          /\ ~(failed > (IF c.sender = "cpu" THEN 1 ELSE 2))
                          /\ ~(failed > 3 /\ c.receiver = "alertManager"))],
         ok |-> failed = 4]

\* DataManager::connectMonitorSignals
connectMonitorSignals(d) ==
    [d EXCEPT !.connections = @ \o
        << [sender |-> "cpu", receiver |-> "dataManager", slot |-> "onCPUDataUpdated"],
           [sender |-> "memory", receiver |-> "dataManager", slot |-> "onMemoryDataUpdated"],
           [sender |-> "cpu", receiver |-> "alertManager", slot |-> "checkCPUThresholds"],
           [sender |-> "memory", receiver |-> "alertManager", slot |-> "checkMemoryThresholds"] >>]

\* the end of a try block of initialize: connectMonitorSignals, the interval
\* of both monitors, m_isInitialized
Wire(d) ==
    LET connected == connectMonitorSignals(d)
    IN  [connected EXCEPT
            !.monitors = [k \in Kinds |-> setUpdateInterval(@[k], d.m_updateInterval)],
            !.m_isInitialized = TRUE]

\* if (m_isInitialized) return;
AlreadyInitialized(d) == d.m_isInitialized

\* DataManager::initialize as the source has it: an outer try block that
\* constructs the three objects; inside it a try block that constructs them
\* again, wires them and returns when that succeeded; then a third try block
\* that does the same without returning; then the wiring once more
initialize(d, throws) ==
    LET failure == <<MonitorSignal("errorOccurred", <<>>)>>
        complete == <<MonitorSignal("initializationComplete", <<>>)>>
        outer == Construct(d, 0, throws)
        second == Construct(outer.d, 3, throws)
        third == Construct(second.d, 6, throws)
    IN  IF AlreadyInitialized(d) THEN [d |-> d, signals |-> <<>>]
        ELSE IF ~outer.ok THEN [d |-> outer.d, signals |-> failure]
        ELSE IF second.ok THEN [d |-> Wire(second.d), signals |-> complete]
        ELSE IF third.ok
             THEN [d |-> Wire(Wire(third.d)),
                   signals |-> failure \o complete \o complete]
             ELSE [d |-> Wire(third.d),
                   signals |-> failure \o failure \o complete]

\* the owned monitors that exist
Owned(d) == {k \in Kinds : d.monitors[k].exists}

\* a call through m_cpuMonitor or m_memoryMonitor that holds no object
NullDereference(d) == \E k \in Kinds : ~d.monitors[k].exists

\* the process has ended
Terminated(d) == [d EXCEPT !.terminated = TRUE]

\* DataManager::start: m_cpuMonitor->startMonitoring() is the first call
\* through a pointer, m_memoryMonitor->startMonitoring() the second
start(d, throws, skipped) ==
    LET begun == IF ~d.m_isInitialized THEN initialize(d, throws)
                 ELSE [d |-> d, signals |-> <<>>]
        x == begun.d
        starting == SelectSeq(<<"cpu", "memory">>, LAMBDA k :
                        x.monitors[k].exists
                        /\ ~AlreadyMonitoring(x.monitors[k].m_isMonitoring))
    IN  IF x.m_isRunning THEN begun
        ELSE IF NullDereference(x) /\ ~skipped
        THEN [d |-> Terminated([x EXCEPT !.monitors["cpu"] = startMonitoring(@)]),
              signals |-> begun.signals
                          \o [i \in 1..Len(SelectSeq(starting,
                                                    LAMBDA k : k = "cpu")) |->
                                 MonitorSignal("monitoringStarted", <<>>)]]
        ELSE [d |-> [x EXCEPT
                        !.monitors = [k \in Kinds |-> startMonitoring(@[k])],
                        !.aggregationTimer = [active |-> TRUE,
                                              interval |-> x.m_updateInterval],
                        !.m_isRunning = TRUE,
                        !.m_isPaused = FALSE],
              signals |-> begun.signals
                          \o [i \in 1..Len(starting) |->
                                 MonitorSignal("monitoringStarted", <<>>)]
                          \o <<MonitorSignal("monitoringStateChanged", <<TRUE>>)>>]

\* DataManager::stop
stop(d) ==
    LET stopping == SelectSeq(<<"cpu", "memory">>, LAMBDA k :
                        d.monitors[k].exists /\ d.monitors[k].m_isMonitoring)
    IN  IF ~d.m_isRunning THEN [d |-> d, signals |-> <<>>]
        ELSE [d |-> [d EXCEPT
                        !.aggregationTimer.active = FALSE,
                        !.monitors = [k \in Kinds |-> stopMonitoring(@[k])],
                        !.m_isRunning = FALSE,
                        !.m_isPaused = FALSE],
              signals |-> [i \in 1..Len(stopping) |->
                              MonitorSignal("monitoringStopped", <<>>)]
                          \o <<MonitorSignal("monitoringStateChanged", <<FALSE>>)>>]

\* DataManager::pause (paused) and DataManager::resume (not paused): the
\* call through m_cpuMonitor first, the one through m_memoryMonitor second
setGlobalPaused(d, paused, skipped) ==
    IF ~d.m_isRunning \/ d.m_isPaused = paused THEN [d |-> d, signals |-> <<>>]
    ELSE IF NullDereference(d) /\ ~skipped
    THEN [d |-> Terminated([d EXCEPT !.monitors["cpu"] = setPaused(@, paused)]),
          signals |-> <<>>]
    ELSE [d |-> [d EXCEPT
                    !.monitors = [k \in Kinds |-> setPaused(@[k], paused)],
                    !.aggregationTimer =
                        IF paused THEN [@ EXCEPT !.active = FALSE]
                        ELSE [active |-> TRUE, interval |-> d.m_updateInterval],
                    !.m_isPaused = paused,
                    !.pausedAt = IF paused THEN now ELSE @],
          signals |-> <<MonitorSignal("monitoringStateChanged", <<~paused>>)>>]

\* DataManager::setUpdateInterval
DataManager_setUpdateInterval(d, intervalMs) ==
    [d EXCEPT
        !.m_updateInterval = ClampInterval(intervalMs),
        !.monitors = [k \in Kinds |-> setUpdateInterval(@[k], ClampInterval(intervalMs))],
        !.aggregationTimer.interval =
            IF d.m_isRunning THEN ClampInterval(intervalMs) ELSE @]

\* SystemOverview::isValid, were it to look at the CPU snapshot only
isValid_CpuOnly(overview) ==
    /\ overview.cpu.coreCount > 0
    /\ ~RatLess(overview.cpu.totalUsage, RatZero)
    /\ ~RatLess(RatHundred, overview.cpu.totalUsage)

\* SystemOverview::isValid: CPUData::isValid and MemoryData::isValid
isValid(overview) ==
    /\ overview.cpu.coreCount > 0
    /\ ~RatLess(overview.cpu.totalUsage, RatZero)
    /\ ~RatLess(RatHundred, overview.cpu.totalUsage)
    /\ overview.memory.totalRAM > 0
    /\ ~RatLess(overview.memory.usagePercentage, RatZero)
    /\ ~RatLess(RatHundred, overview.memory.usagePercentage)

\* the exceptions the constructions of one initialize raise: none; the CPU
\* monitor, the memory monitor or the alert engine of the outer block; the
\* second block's alert engine; the second block's and the third block's CPU
\* monitor
ConstructionFailures == {{}, {1}, {2}, {3}, {6}, {4, 7}}

\* arguments of DataManager::setUpdateInterval
IntervalInputs == {MIN_UPDATE_INTERVAL - 50, 2 * UPDATE_INTERVAL}

\* what the raw sources return to a tick of an owned monitor
DmReadings(k) ==
    IF k = "cpu"
    THEN { CPUReading(TRUE, TRUE, 200, 800, CoreLines(Processors, TRUE, 100, 400),
                      TRUE, 45000),
           CPUReading(TRUE, TRUE, 900, 100, CoreLines(Processors, TRUE, 450, 50),
                      TRUE, 82000) }
    ELSE { MemoryReading(TRUE, 1000000, 250000, SwapIdle),
           MemoryReading(FALSE, 0, 0, SwapLines(FALSE, 0, FALSE, 0)) }

\* what a step of the coordinator leaves unchanged
DmUnchanged ==
    UNCHANGED <<m_alerts, m_maxAlertsHistory, m_nextAlertId, cpuVars,
                memoryVars, tempVars, historyVars, monitorVars,
                tickHistoryVars, rateVars>>

DmFrame ==
    /\ steps' = steps + 1
    /\ UNCHANGED <<m_alerts, m_maxAlertsHistory, m_nextAlertId, cpuVars,
                   memoryVars, tempVars, historyVars, monitorVars,
                   tickHistoryVars, rateVars>>

\* the thread of the coordinator is inside a tick of a monitor, the tick
\* holding the monitor's mutex, or inside an aggregation tick
Busy(d) ==
    \/ d.aggregating
    \/ \E k \in Kinds : d.monitors[k].exists /\ d.monitors[k].m_dataMutex = "tick"

\* a call of a lifecycle operation, one of at most bound operations of the
\* run: what it returns becomes the state
DmCall(bound, name, args, result) ==
    /\ steps < bound
    /\ ~dm.terminated
    /\ ~Busy(dm)
    /\ dm' = [result.d EXCEPT !.delivered = <<>>]
    /\ emitted' = result.signals
    /\ op' = Operation(name, args)
    /\ UNCHANGED now
    /\ DmFrame

DmInitialize ==
    \E throws \in (IF dm.m_isInitialized THEN {{}} ELSE ConstructionFailures) :
        DmCall(MaxDmSteps, "initialize", <<throws>>, initialize(dm, throws))

DmStart ==
    \E throws \in (IF dm.m_isInitialized THEN {{}} ELSE ConstructionFailures),
       skipped \in BOOLEAN :
        DmCall(MaxDmSteps, "start", <<throws>>, start(dm, throws, skipped))

DmStop == DmCall(MaxDmSteps, "stop", <<>>, stop(dm))

DmPause ==
    \E skipped \in BOOLEAN :
        DmCall(MaxDmSteps, "pause", <<>>, setGlobalPaused(dm, TRUE, skipped))

DmResume ==
    \E skipped \in BOOLEAN :
        DmCall(MaxDmSteps, "resume", <<>>, setGlobalPaused(dm, FALSE, skipped))

DmSetUpdateInterval ==
    \E intervalMs \in IntervalInputs :
        DmCall(MaxDmSteps, "setUpdateInterval", <<intervalMs>>,
               [d |-> DataManager_setUpdateInterval(dm, intervalMs), signals |-> <<>>])

\* the timer of an owned monitor expires: BaseMonitor::onTimerTick takes the
\* monitor's mutex, runs collectData, processData and validateData, and
\* emitSignal emits the monitor's snapshot signal; the slots connected to
\* the signal run inside the emission, each connection in the order it was
\* made.  With no other thread about (slotSteps FALSE) onCPUDataUpdated /
\* onMemoryDataUpdated store the snapshot in the overview in the same step
\* and the slots of the alert engine run next; with other threads about
\* (slotSteps TRUE) every slot is a step of its own.  The tick holds the
\* monitor's mutex until the step that ends it.  Where the timers are fair
\* an expiry counts against the timer's own bound, otherwise against the
\* bound on the operations of the run.
MonitorTickOf(k, slotSteps, fair, bound) ==
    /\ IF fair THEN dm.expiries[k] < MaxExpiries ELSE steps < bound
    /\ ~dm.terminated
    /\ ~Busy(dm)
    /\ \E raw \in DmReadings("cpu") \cup DmReadings("memory") :
        LET mon == dm.monitors[k]
            time == now + mon.timerInterval
            slots == SelectSeq(dm.connections, LAMBDA c : c.sender = k)
            stored == ~slotSteps
                      /\ \E i \in 1..Len(slots) : slots[i].receiver = "dataManager"
            later == IF slotSteps THEN slots
                     ELSE SelectSeq(slots, LAMBDA c : c.receiver = "alertManager")
        IN  /\ mon.exists
            /\ mon.timerActive
            /\ raw \in DmReadings(k)
            /\ ~SkippedWhilePaused(mon.m_isPaused) => MutexFree(mon.m_dataMutex)
            /\ (stored /\ ~SkippedWhilePaused(mon.m_isPaused))
                   => MutexFree(dm.m_dataMutex)
            /\ now' = time
            /\ IF SkippedWhilePaused(mon.m_isPaused)
               THEN /\ dm' = [dm EXCEPT !.delivered = <<>>,
                                        !.expiries[k] = IF fair THEN @ + 1 ELSE @]
                    /\ emitted' = <<>>
                    /\ op' = Operation("onTimerTick", <<k>>)
               ELSE \E collected \in {collectData(k, mon.data, raw)} :
                    \E processed \in {processData(k, collected, time)} :
                    \E validated \in {validateData(k, processed)} :
                    \E snapshot \in {validated.m_currentData} :
                    /\ dm' = [dm EXCEPT
                                !.monitors[k].data = validated,
                                !.expiries[k] = IF fair THEN @ + 1 ELSE @,
                                !.monitors[k].m_dataMutex = "tick",
                                !.m_currentOverview =
                                    IF ~stored THEN @
                                    ELSE IF k = "cpu" THEN [@ EXCEPT !.cpu = snapshot]
                                    ELSE [@ EXCEPT !.memory = snapshot],
                                !.delivered =
                                    [i \in 1..Len(slots) |->
                                        [slot |-> slots[i].slot, data |-> snapshot]],
                                !.pending =
                                    [i \in 1..Len(later) |->
                                        [slot |-> later[i].slot,
                                         receiver |-> later[i].receiver,
                                         sender |-> k,
                                         data |-> snapshot]]]
                    /\ emitted' = <<MonitorSignal(DataSignal(k), snapshot)>>
                    /\ op' = Operation("onTimerTick", <<k, raw>>)
    /\ steps' = IF fair THEN steps ELSE steps + 1
    /\ DmUnchanged

\* the slots of the snapshot signal have returned: the rest of emitSignal,
\* the signals of the thresholds and the append to the history;
\* updateTimestamp; emit dataUpdated; the QMutexLocker of onTimerTick goes
\* out of scope
FinishTickOf(k) ==
    /\ ~dm.terminated
    /\ dm.pending = <<>>
    /\ calls["main"].pc = "idle"
    /\ dm.monitors[k].exists
    /\ dm.monitors[k].m_dataMutex = "tick"
    /\ \E done \in {Publish(k, dm.monitors[k].data, now)} :
        /\ dm' = [dm EXCEPT !.monitors[k].data = done.self,
                            !.monitors[k].m_dataMutex = "free"]
        /\ emitted' = Tail(done.signals)
    /\ op' = Operation("emitSignal", <<k>>)
    /\ UNCHANGED <<now, steps>>
    /\ DmUnchanged

DmFinishTick == \E k \in Kinds : FinishTickOf(k)

MonitorTick(slotSteps) ==
    \E k \in Kinds : MonitorTickOf(k, slotSteps, FALSE, MaxDmSteps)

DmMonitorTick == MonitorTick(FALSE)

\* the whole part of a percentage: a double is at or above a whole
\* threshold exactly when its whole part is
Whole(value) == value[1] \div value[2]

\* the arguments a slot of the alert engine tests: checkCPUThresholds the
\* usage and the temperature of the snapshot, checkMemoryThresholds its usage
SlotArgs(call) ==
    IF call.slot = "checkCPUThresholds"
    THEN <<Whole(call.data.totalUsage), call.data.temperature \div 1000>>
    ELSE <<Whole(call.data.usagePercentage)>>

\* inside the emission of a monitor's snapshot signal: the next slot of the
\* alert engine connected to it is called and makes its first access
DmAlertSlot ==
    /\ ~dm.terminated
    /\ dm.pending # <<>>
    /\ Head(dm.pending).receiver = "alertManager"
    /\ calls["main"].pc = "idle"
    /\ LET call == Head(dm.pending) IN
        /\ ThresholdAccess("main", Entering(call.slot, SlotArgs(call)))
        /\ op' = Operation(call.slot, SlotArgs(call))
    /\ UNCHANGED <<steps, dm>>

\* the slot makes its next access, addAlert once it has the alert engine's
\* mutex; when it returns, the emission goes on to the next slot, or, after
\* the last, emitSignal goes on
DmAlertAccess ==
    /\ calls["main"].pc # "idle"
    /\ calls["main"].pc = "addAlert" => MutexFree(dm.m_alertsMutex)
    /\ ThresholdAccess("main", calls["main"])
    /\ dm' = IF calls'["main"].pc = "idle"
             THEN [dm EXCEPT !.pending = Tail(@)]
             ELSE dm
    /\ UNCHANGED <<op, steps>>

\* the aggregation timer expires with no other thread about:
\* DataManager::aggregateSystemData, its updateSystemOverview, its
\* getCurrentSystemData and its emission
aggregateSystemData(fair, bound) ==
    /\ IF fair THEN dm.expiries["aggregate"] < MaxExpiries ELSE steps < bound
    /\ ~dm.terminated
    /\ ~Busy(dm)
    /\ dm.aggregationTimer.active
    /\ MutexFree(dm.m_dataMutex)
    /\ now' = now + dm.aggregationTimer.interval
    /\ LET overview == [dm.m_currentOverview EXCEPT !.timestamp = now'] IN
        /\ dm' = [dm EXCEPT !.m_currentOverview = overview, !.delivered = <<>>,
                            !.expiries["aggregate"] = IF fair THEN @ + 1 ELSE @]
        /\ emitted' = IF isValid(overview)
                      THEN <<MonitorSignal("systemDataUpdated", overview)>>
                      ELSE <<>>
    /\ op' = Operation("aggregateSystemData", <<>>)
    /\ steps' = IF fair THEN steps ELSE steps + 1
    /\ DmUnchanged

DmAggregate == aggregateSystemData(FALSE, MaxDmSteps)

\* DataManager::getCurrentSystemData on another thread, step by step: the
\* QMutexLocker; the copy of m_currentOverview into the value returned, the
\* timestamp, the usage and the temperature of the CPU snapshot first, the
\* rest of it and the memory snapshot after; the unlock and the return
ReaderFrame ==
    /\ emitted' = <<>>
    /\ UNCHANGED <<now, m_alerts, m_maxAlertsHistory, m_nextAlertId,
                   cpuVars, memoryVars, tempVars, historyVars, kind, monitor,
                   m_isMonitoring, m_isPaused, timerActive, m_dataMutex, tickPc,
                   tickHistoryVars, rateVars>>

GetSystemDataLock ==
    /\ steps < MaxDmSteps
    /\ ~dm.terminated
    /\ IF readResult.call = "getCurrentSystemData"
       THEN readResult.pc = "returned" ELSE TRUE
    /\ MutexFree(dm.m_dataMutex)
    /\ dm' = [dm EXCEPT !.m_dataMutex = "getCurrentSystemData"]
    /\ readResult' = [call |-> "getCurrentSystemData", pc |-> "locked"]
    /\ op' = Operation("getCurrentSystemData", <<"lock">>)
    /\ steps' = steps + 1
    /\ ReaderFrame

\* getCurrentSystemData had it read the monitor instead of the overview: the
\* monitor's mutex taken inside the coordinator's
GetSystemDataCopy_FromMonitor ==
    /\ ~dm.terminated
    /\ readResult.call = "getCurrentSystemData"
    /\ readResult.pc = "locked"
    /\ IF dm.monitors["cpu"].exists
       THEN MutexFree(dm.monitors["cpu"].m_dataMutex) ELSE TRUE
    /\ LET cpu == IF dm.monitors["cpu"].exists
                  THEN dm.monitors["cpu"].data.m_currentData
                  ELSE dm.m_currentOverview.cpu
       IN  readResult' = [call |-> "getCurrentSystemData", pc |-> "copying",
                          timestamp |-> cpu.timestamp,
                          totalUsage |-> cpu.totalUsage,
                          temperature |-> cpu.temperature]
    /\ op' = Operation("getCurrentSystemData", <<"copy">>)
    /\ UNCHANGED dm
    /\ UNCHANGED steps
    /\ ReaderFrame

GetSystemDataCopy ==
    /\ ~dm.terminated
    /\ readResult.call = "getCurrentSystemData"
    /\ readResult.pc = "locked"
    /\ readResult' = [call |-> "getCurrentSystemData", pc |-> "copying",
                      timestamp |-> dm.m_currentOverview.cpu.timestamp,
                      totalUsage |-> dm.m_currentOverview.cpu.totalUsage,
                      temperature |-> dm.m_currentOverview.cpu.temperature]
    /\ op' = Operation("getCurrentSystemData", <<"copy">>)
    /\ UNCHANGED dm
    /\ UNCHANGED steps
    /\ ReaderFrame

GetSystemDataReturn ==
    /\ ~dm.terminated
    /\ readResult.call = "getCurrentSystemData"
    /\ readResult.pc = "copying"
    /\ readResult' =
           [call |-> "getCurrentSystemData", pc |-> "returned",
            data |-> [dm.m_currentOverview EXCEPT
                         !.cpu.timestamp = readResult.timestamp,
                         !.cpu.totalUsage = readResult.totalUsage,
                         !.cpu.temperature = readResult.temperature]]
    /\ dm' = [dm EXCEPT !.m_dataMutex =
                            IF @ = "getCurrentSystemData" THEN "free" ELSE @]
    /\ op' = Operation("getCurrentSystemData", <<"return">>)
    /\ UNCHANGED steps
    /\ ReaderFrame

\* the timer of an owned monitor expires while other threads are about
OvMonitorTick == MonitorTick(TRUE)

\* the aggregation timer expires while other threads are about:
\* aggregateSystemData calls updateSystemOverview, which stamps the overview
\* under the coordinator's mutex and unlocks
OvAggregateUpdate ==
    /\ steps < MaxDmSteps
    /\ ~dm.terminated
    /\ ~Busy(dm)
    /\ dm.aggregationTimer.active
    /\ MutexFree(dm.m_dataMutex)
    /\ now' = now + dm.aggregationTimer.interval
    /\ dm' = [dm EXCEPT !.m_currentOverview.timestamp = now',
                        !.delivered = <<>>,
                        !.aggregating = TRUE]
    /\ emitted' = <<>>
    /\ op' = Operation("updateSystemOverview", <<>>)
    /\ steps' = steps + 1
    /\ DmUnchanged

\* aggregateSystemData goes on: getCurrentSystemData copies the overview
\* under the coordinator's mutex, taken again, and the copy is emitted if it
\* is valid
OvAggregateEmit ==
    /\ ~dm.terminated
    /\ dm.aggregating
    /\ MutexFree(dm.m_dataMutex)
    /\ dm' = [dm EXCEPT !.aggregating = FALSE]
    /\ emitted' = IF isValid(dm.m_currentOverview)
                  THEN <<MonitorSignal("systemDataUpdated", dm.m_currentOverview)>>
                  ELSE <<>>
    /\ op' = Operation("aggregateSystemData", <<>>)
    /\ UNCHANGED <<now, steps>>
    /\ DmUnchanged

\* inside the emission of a monitor's snapshot signal: onCPUDataUpdated /
\* onMemoryDataUpdated locks the coordinator's mutex and stores the snapshot
OvOverviewSlot ==
    /\ ~dm.terminated
    /\ dm.pending # <<>>
    /\ Head(dm.pending).receiver = "dataManager"
    /\ MutexFree(dm.m_dataMutex)
    /\ LET call == Head(dm.pending) IN
        /\ dm' = [dm EXCEPT
                      !.m_currentOverview =
                          IF call.sender = "cpu" THEN [@ EXCEPT !.cpu = call.data]
                          ELSE [@ EXCEPT !.memory = call.data],
                      !.pending = Tail(@)]
        /\ op' = Operation(call.slot, <<>>)
    /\ UNCHANGED readResult
    /\ UNCHANGED steps
    /\ ReaderFrame

\* DataManager::getCurrentCPUData / getCurrentMemoryData on a third thread:
\* the monitor's getCurrentData, its QMutexLocker first, the copy, the
\* unlock and the return after
GetMonitorDataLock ==
    /\ steps < MaxDmSteps
    /\ ~dm.terminated
    /\ \E k \in Owned(dm) :
        /\ \A other \in Owned(dm) : dm.monitors[other].m_dataMutex # "getCurrentData"
        /\ MutexFree(dm.monitors[k].m_dataMutex)
        /\ dm' = [dm EXCEPT !.monitors[k].m_dataMutex = "getCurrentData"]
        /\ op' = Operation("getCurrentData", <<k, "lock">>)
    /\ UNCHANGED readResult
    /\ steps' = steps + 1
    /\ ReaderFrame

GetMonitorDataReturn ==
    /\ ~dm.terminated
    /\ \E k \in Owned(dm) :
        /\ dm.monitors[k].m_dataMutex = "getCurrentData"
        /\ dm' = [dm EXCEPT !.monitors[k].m_dataMutex = "free"]
        /\ op' = Operation("getCurrentData", <<k, "return">>)
    /\ UNCHANGED readResult
    /\ UNCHANGED steps
    /\ ReaderFrame

\* AlertManager::getActiveAlerts on a fourth thread: its QMutexLocker first,
\* the loop over the log, the unlock and the return after
GetActiveAlertsLock ==
    /\ steps < MaxDmSteps
    /\ ~dm.terminated
    /\ dm.m_alertManager
    /\ MutexFree(dm.m_alertsMutex)
    /\ dm' = [dm EXCEPT !.m_alertsMutex = "getActiveAlerts"]
    /\ op' = Operation("getActiveAlerts", <<"lock">>)
    /\ UNCHANGED readResult
    /\ steps' = steps + 1
    /\ ReaderFrame

GetActiveAlertsReturn ==
    /\ ~dm.terminated
    /\ dm.m_alertsMutex = "getActiveAlerts"
    /\ dm' = [dm EXCEPT !.m_alertsMutex = "free"]
    /\ op' = Operation("getActiveAlerts", <<"return", getActiveAlerts(m_alerts)>>)
    /\ UNCHANGED readResult
    /\ UNCHANGED steps
    /\ ReaderFrame

\* ------------------------------------------------------------------------
\* Specifications
\* ------------------------------------------------------------------------
\* The threshold evaluation: one thread hands snapshots to the engine, one
\* after the other, and the clock advances between two calls.
NextEval ==
    \/ CheckCPUThresholds
    \/ CheckMemoryThresholds
    \/ MainNextAccess
    \/ NoCall /\ Tick

SpecEval == Init /\ [][NextEval]_vars

\* The alert log: one thread calls the operations of the log, and the
\* monitors hand the engine the snapshots of a hot busy machine short of
\* memory.
HotCPUInputs == {<<CPU_CRITICAL_THRESHOLD, TEMP_CRITICAL_THRESHOLD + 2>>}
HotMemoryInputs == {RAM_CRITICAL_THRESHOLD}

HotCheckCPUThresholds == CallCPU("main", MaxSteps, HotCPUInputs)
HotCheckMemoryThresholds == CallMemory("main", MaxSteps, HotMemoryInputs)

Next ==
    \/ NoCall /\ AddAlert
    \/ NoCall /\ AcknowledgeAlert
    \/ NoCall /\ ClearAllAlerts
    \/ NoCall /\ ClearAcknowledgedAlerts
    \/ NoCall /\ CleanupOldAlerts
    \/ NoCall /\ SetMaxAlertsHistory
    \/ HotCheckCPUThresholds
    \/ HotCheckMemoryThresholds
    \/ MainNextAccess
    \/ NoCall /\ Tick

Spec == Init /\ [][Next]_vars

\* The capacity of the log: one caller appends alerts and reconfigures the
\* capacity, long enough for the log to reach the smallest capacity.
CapacityAlert == AlertData("Info", "Link up", SrcNet1, FALSE)

CapAddAlert ==
    /\ steps < MaxCapSteps
    /\ DoAddAlert(CapacityAlert)

CapSetMaxAlertsHistory ==
    /\ steps < MaxCapSteps
    /\ \E maxCount \in MaxCountInputs : DoSetMaxAlertsHistory(maxCount)

NextCap ==
    \/ CapAddAlert
    \/ CapSetMaxAlertsHistory

SpecCap == Init /\ [][NextCap]_vars

\* The threshold evaluation called from two threads while the clock runs:
\* every interleaving of the statements of their calls.
ThreadsTick == ClockAdvance(MaxThreadSteps)

\* the snapshots two threads hand to the engine: a cool idle machine and a
\* busy one
ThreadCPUInputs ==
    { <<CPU_WARNING_THRESHOLD - 1, TEMP_WARNING_THRESHOLD - 1>>,
      <<CPU_CRITICAL_THRESHOLD, TEMP_WARNING_THRESHOLD - 1>> }
ThreadMemoryInputs == {RAM_CRITICAL_THRESHOLD}

NextThreads ==
    \/ \E t \in Threads : CallCPU(t, MaxThreadSteps, ThreadCPUInputs)
    \/ \E t \in Threads : CallMemory(t, MaxThreadSteps, ThreadMemoryInputs)
    \/ \E t \in Threads : NextAccess(t)
    \/ ThreadsTick

SpecThreads == Init /\ [][NextThreads]_vars

\* One monitor of either class, its timer, and callers on other threads: the
\* lifecycle calls, the accessors, and a tick that runs phase by phase and
\* may raise a fault in any phase.
InitMon ==
    /\ AlertManagerInit
    /\ \E k \in Kinds : MonitorInit(k)
    /\ RateIdle

NextMon ==
    \/ StartMonitoring
    \/ StopMonitoring
    \/ PauseMonitoring
    \/ ResumeMonitoring
    \/ TimerExpiry
    \/ CollectPhase
    \/ ProcessPhase
    \/ ValidatePhase
    \/ PublishPhase
    \/ Fault
    \/ GetCurrentData
    \/ GetHistory

SpecMon == InitMon /\ [][NextMon]_vars

\* The history of a monitor: the monitor is started once, ticks without a
\* fault, and its owner changes the size of the history, long enough for the
\* history to pass the smallest size.
HistReading(k) ==
    IF k = "cpu"
    THEN CPUReading(TRUE, TRUE, 350, 850, CoreLines(Processors, TRUE, 175, 425),
                    TRUE, 82000)
    ELSE MemoryReading(TRUE, 1000000, 250000, SwapIdle)

\* arguments of setHistorySize
HistorySizeInputs ==
    {MIN_HISTORY_SIZE - 5, MIN_HISTORY_SIZE + 2, 2 * LIMIT_HISTORY_SIZE}

HistStartMonitoring ==
    /\ steps < MaxHistSteps
    /\ ~m_isMonitoring
    /\ DoStartMonitoring

HistTick ==
    /\ steps < MaxHistSteps
    /\ timerActive
    /\ tickPc = "idle"
    /\ ~SkippedWhilePaused(m_isPaused)
    /\ MutexFree(m_dataMutex)
    /\ DoOnTimerTick(HistReading(kind))

HistSetHistorySize ==
    /\ steps < MaxHistSteps
    /\ resizes < MaxResizes
    /\ \E size \in HistorySizeInputs : DoSetHistorySize(size)

NextHist ==
    \/ HistStartMonitoring
    \/ HistTick
    \/ HistSetHistorySize

SpecHist == InitMon /\ [][NextHist]_vars

\* A monitor and a consumer whose slot is connected to the monitor's
\* snapshot signal on the monitor's thread: the tick runs phase by phase
\* and the slot runs inside the emission.
NextCb ==
    \/ StartMonitoring
    \/ TimerExpiry
    \/ CollectPhase
    \/ ProcessPhase
    \/ ValidatePhase
    \/ NotifyPhase
    \/ ConsumerSlot
    \/ FinishPhase

SpecCb == InitMon /\ [][NextCb]_vars

\* The sampling of a CPU monitor: the monitor is started and ticks, with a
\* fault in some phase or without, while /proc/stat and the thermal zone
\* return any of these: three
\* successive values of the counters (a tick may also see them go back) and
\* one whose idle counter is ahead of them by more than its total, each
\* with a temperature below the warning threshold, in the warning band, at
\* or above the critical threshold, and out of range; nothing readable; and
\* the lines of some cores missing or not parsing, or the first line cut
\* short before the lines of the cores.
CpuReadings ==
    { CPUReading(TRUE, TRUE, c[1], c[2],
                 CoreLines(Processors, TRUE, c[1] \div 2, c[2] \div 2), TRUE, t) :
        c \in {<<200, 800>>, <<350, 850>>, <<546, 854>>, <<200, 1050>>},
        t \in {45000, 72000, 82000, 200000} }
    \cup
    { CPUReading(FALSE, FALSE, 0, 0, <<>>, FALSE, 0),
      CPUReading(TRUE, FALSE, 0, 0, CoreLines(Processors, TRUE, 175, 425),
                 TRUE, 45000),
      CPUReading(TRUE, TRUE, 350, 850, CoreLines(1, TRUE, 175, 425), TRUE, 45000),
      CPUReading(TRUE, TRUE, 350, 850,
                 CoreLines(1, FALSE, 0, 0) \o CoreLines(1, TRUE, 175, 425),
                 TRUE, 45000) }

CpuTick ==
    /\ steps < MaxCpuSteps
    /\ timerActive
    /\ tickPc = "idle"
    /\ ~SkippedWhilePaused(m_isPaused)
    /\ MutexFree(m_dataMutex)
    /\ \E raw \in CpuReadings : DoOnTimerTick(raw)

\* what the raw sources return to a tick in which a phase raises: counters
\* that have gone forward and a temperature in the warning band
CpuFaultReadings ==
    { CPUReading(TRUE, TRUE, 350, 850, CoreLines(Processors, TRUE, 175, 425),
                 TRUE, 72000) }

\* a tick in which a phase raises
CpuFault ==
    /\ steps < MaxCpuSteps
    /\ timerActive
    /\ tickPc = "idle"
    /\ ~SkippedWhilePaused(m_isPaused)
    /\ MutexFree(m_dataMutex)
    /\ \E raw \in CpuFaultReadings : DoFaultedTick(raw)

CpuGetCurrentData ==
    /\ steps < MaxCpuSteps
    /\ GetCurrentData

NextCpu ==
    \/ HistStartMonitoring
    \/ CpuTick
    \/ CpuFault
    \/ CpuGetCurrentData

SpecCpu == Init /\ [][NextCpu]_vars

\* The coordinator: a new DataManager, the calls of its owner, the timers of
\* its two monitors and its aggregation timer.
NextDm ==
    \/ DmInitialize
    \/ DmStart
    \/ DmStop
    \/ DmPause
    \/ DmResume
    \/ DmSetUpdateInterval
    \/ DmMonitorTick
    \/ DmAlertSlot
    \/ DmAlertAccess
    \/ DmFinishTick
    \/ DmAggregate

SpecDm == Init /\ [][NextDm]_vars

\* The coordinator with its timers fair: an active QTimer of a thread whose
\* event loop runs does expire, and a slot called inside an emission runs.
\* The lifecycle calls are bounded in number, and each timer in its expiries.
TickOf(k) == MonitorTickOf(k, FALSE, TRUE, MaxDmSteps)

FairMonitorTick == \E k \in Kinds : TickOf(k)

FairAggregate == aggregateSystemData(TRUE, MaxDmSteps)

NextDmFair ==
    \/ DmInitialize
    \/ DmStart
    \/ DmStop
    \/ DmPause
    \/ DmResume
    \/ DmSetUpdateInterval
    \/ FairMonitorTick
    \/ DmAlertSlot
    \/ DmAlertAccess
    \/ DmFinishTick
    \/ FairAggregate

SpecDmFair ==
    /\ Init
    /\ [][NextDmFair]_vars
    /\ WF_vars(TickOf("cpu"))
    /\ WF_vars(TickOf("memory"))
    /\ WF_vars(DmAlertSlot)
    /\ WF_vars(DmAlertAccess)
    /\ WF_vars(DmFinishTick)
    /\ WF_vars(FairAggregate)

\* A pause: a coordinator whose constructions succeed is started, paused and
\* resumed, the timers of its two monitors and its aggregation timer expire,
\* long enough for a source to alert, be paused and resumed and be evaluated
\* three times more.
PauseStart == DmCall(MaxPauseSteps, "start", <<{}>>, start(dm, {}, FALSE))

PausePause ==
    DmCall(MaxPauseSteps, "pause", <<>>, setGlobalPaused(dm, TRUE, FALSE))

PauseResume ==
    DmCall(MaxPauseSteps, "resume", <<>>, setGlobalPaused(dm, FALSE, FALSE))

PauseMonitorTick ==
    \E k \in Kinds : MonitorTickOf(k, FALSE, FALSE, MaxPauseSteps)

PauseAggregate == aggregateSystemData(FALSE, MaxPauseSteps)

NextPause ==
    \/ PauseStart
    \/ PausePause
    \/ PauseResume
    \/ PauseMonitorTick
    \/ DmAlertSlot
    \/ DmAlertAccess
    \/ DmFinishTick
    \/ PauseAggregate

SpecPause == Init /\ [][NextPause]_vars

\* The overview and its readers: the coordinator is started, its monitors
\* and its aggregation timer tick on its thread, a second thread calls
\* getCurrentSystemData, a third getCurrentCPUData / getCurrentMemoryData
\* and a fourth getActiveAlerts of the alert engine.
NextOv ==
    \/ DmStart
    \/ OvMonitorTick
    \/ OvOverviewSlot
    \/ DmAlertSlot
    \/ DmAlertAccess
    \/ DmFinishTick
    \/ OvAggregateUpdate
    \/ OvAggregateEmit
    \/ GetSystemDataLock
    \/ GetSystemDataCopy
    \/ GetSystemDataReturn
    \/ GetMonitorDataLock
    \/ GetMonitorDataReturn
    \/ GetActiveAlertsLock
    \/ GetActiveAlertsReturn

SpecOv == Init /\ [][NextOv]_vars

\* The rate computation on its own: any four counters, handed to
\* SystemUtils::calculateCPUUsage and, as the current and previous counters
\* of a CPU monitor, to CPUMonitor::calculateUsagePercent and, as the current
\* and previous counters of its cores, to CPUMonitor::collectCoreData.
CounterSamples == {50, 200, 800, 850, 1000, 1200}

CounterValues == (0..MaxCounter) \cup CounterSamples

RateInputs ==
    { RateInput(t, i, lt, li) : t \in CounterValues, i \in CounterValues,
                                lt \in CounterValues, li \in CounterValues }

InitRate ==
    /\ AlertManagerInit
    /\ MonitorInit("cpu")
    /\ rateIn \in RateInputs
    /\ rateOut = NoRate
    /\ dm = DataManager

ComputeRate ==
    /\ ~rateOut.computed
    /\ LET current == CPUStat(rateIn.totalTime - rateIn.idleTime, rateIn.idleTime)
           previous == CPUStat(rateIn.lastTotalTime - rateIn.lastIdleTime,
                               rateIn.lastIdleTime)
           cores == collectCoreData(
                        [monitor EXCEPT
                            !.m_coreStats = [i \in DOMAIN @ |-> current],
                            !.m_previousCoreStats = [i \in DOMAIN @ |-> previous]])
       IN  rateOut' =
             [computed |-> TRUE,
              system |-> calculateCPUUsage(rateIn.totalTime, rateIn.idleTime,
                                           rateIn.lastTotalTime, rateIn.lastIdleTime),
              monitor |-> calculateUsagePercent(current, previous),
              cores |-> cores.m_currentData.cores]
    /\ op' = Operation("calculateCPUUsage", <<>>)
    /\ emitted' = <<>>
    /\ steps' = steps + 1
    /\ UNCHANGED <<now, m_alerts, m_maxAlertsHistory, m_nextAlertId, cpuVars,
                   memoryVars, tempVars, historyVars, monitorVars,
                   tickHistoryVars, rateIn, dm>>

NextRate == ComputeRate

SpecRate == InitRate /\ [][NextRate]_vars

\* ------------------------------------------------------------------------
\* Vocabulary of the properties
\* ------------------------------------------------------------------------
SourceString(source) ==
    CASE source = "CPU" -> SrcCPU
      [] source = "Memory" -> SrcMemory
      [] source = "Temperature" -> SrcTemperature

\* the isActive flag of a (source, severity) pair
Active(source, severity) ==
    CASE source = "CPU" /\ severity = "Warning" -> m_cpuWarningActive
      [] source = "CPU" /\ severity = "Critical" -> m_cpuCriticalActive
      [] source = "Memory" /\ severity = "Warning" -> m_memoryWarningActive
      [] source = "Memory" /\ severity = "Critical" -> m_memoryCriticalActive
      [] source = "Temperature" /\ severity = "Warning" -> m_tempWarningActive
      [] source = "Temperature" /\ severity = "Critical" -> m_tempCriticalActive

\* the time the firing decision of a (source, severity) pair reads
LastFiredAtUsed(source, severity) ==
    CASE source = "CPU" -> m_lastCPUAlert
      [] source = "Memory" -> m_lastMemoryAlert
      [] source = "Temperature" -> m_lastTempAlert

\* operation o evaluated a snapshot for the source, with this value
Evaluated(source, o) ==
    \/ source \in {"CPU", "Temperature"} /\ o.name = "checkCPUThresholds"
    \/ source = "Memory" /\ o.name = "checkMemoryThresholds"

\* the alerts of a source among emitted signals, and those of one severity
AlertsOf(source, signals) ==
    SelectSeq(signals, LAMBDA s : s.sig = "alertAdded"
                                  /\ s.alert.source = SourceString(source))

AlertsOfSeverity(source, severity, signals) ==
    SelectSeq(AlertsOf(source, signals), LAMBDA s : s.alert.severity = severity)

\* when the last alert of a source, of either severity, was emitted
LastEmission(fired, source) ==
    IF fired[<<source, "Warning">>] > fired[<<source, "Critical">>]
    THEN fired[<<source, "Warning">>]
    ELSE fired[<<source, "Critical">>]

\* the step is the last access of a call of thread t: the evaluation began in
\* the state calls[t].before, emitted calls[t].emitted, and ends in the
\* state after the step
Returns(t) == calls[t].pc # "idle" /\ calls'[t].pc = "idle"

\* a flag of a (source, severity) pair when a call began
ActiveBefore(call, source, severity) ==
    IF severity = "Critical" THEN call.before.members[source].critical
    ELSE call.before.members[source].warning

\* ------------------------------------------------------------------------
\* C1..C5: threshold evaluation
\* ------------------------------------------------------------------------
\* C1: while every snapshot of a source is at or above the critical
\* threshold, the first snapshot emits exactly one alert of the source, a
\* later snapshot within the cooldown of the last alert emits none, and a
\* snapshot after the cooldown emits exactly one.
C1_SustainedCriticalOncePerCooldown ==
    [][\A t \in Threads : Returns(t) =>
        \A source \in Sources :
            (Evaluated(source, calls[t]) /\ allCritical'[source]) =>
                LET n == Len(AlertsOf(source, calls[t].emitted))
                    before == calls[t].before
                IN  IF before.evalHist[source][2] = "none" THEN n = 1
                    ELSE IF now' - LastEmission(before.lastFired, source)
                                <= ALERT_COOLDOWN_MS
                    THEN n = 0
                    ELSE n = 1]_vars

\* C2: an evaluation clears the active flags of a source only when the value
\* is below the warning threshold, and then clears both and appends no alert;
\* an evaluation at or above the warning threshold clears no flag.
C2_ClearOnlyWhenConditionGone ==
    [][\A t \in Threads : Returns(t) =>
        \A source \in Sources :
            Evaluated(source, calls[t]) =>
                IF ValueOf(source, calls[t]) < WarningThreshold(source)
                THEN /\ ~Active(source, "Warning")'
                     /\ ~Active(source, "Critical")'
                     /\ AlertsOf(source, calls[t].emitted) = <<>>
                ELSE /\ ActiveBefore(calls[t], source, "Warning")
                            => Active(source, "Warning")'
                     /\ ActiveBefore(calls[t], source, "Critical")
                            => Active(source, "Critical")'
      ]_vars

\* C3: an alert of (source, severity) is allowed exactly when the pair is not
\* active or more than the cooldown has passed since the last alert of that
\* same pair (Critical is decided first, Warning only when no Critical alert
\* is emitted), and emitting an alert of one severity leaves the time used
\* for the other severity unchanged.
C3_DecisionPerSourceAndSeverity ==
    [][\A t \in Threads : Returns(t) =>
        \A source \in Sources :
            Evaluated(source, calls[t]) =>
                LET value == ValueOf(source, calls[t])
                    before == calls[t].before
                    allowed(severity) ==
                        \/ ~ActiveBefore(calls[t], source, severity)
                        \/ MsecsTo(before.lastFired[<<source, severity>>], now')
                               > ALERT_COOLDOWN_MS
                    fired(severity) ==
                        AlertsOfSeverity(source, severity, calls[t].emitted) # <<>>
                IN  /\ value >= CriticalThreshold(source)
                           => (fired("Critical") <=> allowed("Critical"))
                    /\ (value >= WarningThreshold(source) /\ ~fired("Critical"))
                           => (fired("Warning") <=> allowed("Warning"))
                    /\ fired("Critical") =>
                           LastFiredAtUsed(source, "Warning")'
                               = before.members[source].last
                    /\ fired("Warning") =>
                           LastFiredAtUsed(source, "Critical")'
                               = before.members[source].last
      ]_vars

\* C4: an evaluation below the warning threshold clears both active flags of
\* the source, and the next evaluation of the source at or above the warning
\* threshold emits an alert of it, whatever time has passed since the last
\* critical alert.
C4_RecrossingFiresAfterDrop ==
    [][\A t \in Threads : Returns(t) =>
        \A source \in Sources :
            Evaluated(source, calls[t]) =>
                /\ ValueOf(source, calls[t]) < WarningThreshold(source)
                       => (~Active(source, "Warning")' /\ ~Active(source, "Critical")')
                /\ (calls[t].before.evalHist[source][2] = "low"
                    /\ ValueOf(source, calls[t]) >= WarningThreshold(source))
                       => Len(AlertsOf(source, calls[t].emitted)) = 1
      ]_vars

\* a source was critical and alerted, dropped below warning, and re-crossed
\* the warning threshold within the cooldown of its critical alert: a new
\* alert is emitted
C4_Witness ==
    \E source \in Sources :
        /\ NoCall
        /\ Evaluated(source, op)
        /\ evalHist[source] = <<"low", "warn">>
        /\ lastFired[<<source, "Critical">>] # InvalidTime
        /\ now - lastFired[<<source, "Critical">>] < ALERT_COOLDOWN_MS
        /\ Len(AlertsOfSeverity(source, "Warning", emitted)) = 1

\* C5: one evaluation emits at most one alert per source (and none of a source
\* it does not evaluate); when it emits a Critical alert of a source it emits
\* no Warning alert of it and leaves the Warning state of the source as it
\* was: its isActive flag and its lastFiredAt, the time the decision about a
\* Warning alert reads.
C5_AtMostOneAlertPerSource ==
    [][\A t \in Threads : Returns(t) =>
        \A source \in Sources :
            /\ Len(AlertsOf(source, calls[t].emitted)) <= 1
            /\ ~Evaluated(source, calls[t]) => AlertsOf(source, calls[t].emitted) = <<>>
            /\ AlertsOfSeverity(source, "Critical", calls[t].emitted) # <<>> =>
                   /\ AlertsOfSeverity(source, "Warning", calls[t].emitted) = <<>>
                   /\ Active(source, "Warning")'
                          = ActiveBefore(calls[t], source, "Warning")
                   /\ LastFiredAtUsed(source, "Warning")'
                          = calls[t].before.members[source].last
      ]_vars

\* ------------------------------------------------------------------------
\* C6..C10: the alert log
\* ------------------------------------------------------------------------
\* C6: the log never holds more alerts than the configured capacity, and an
\* append that would exceed the capacity drops the oldest alert.
C6_LogWithinCapacity ==
    [][/\ Len(getAllAlerts') <= m_maxAlertsHistory'
       /\ (op'.name = "addAlert" /\ Len(m_alerts) + 1 > m_maxAlertsHistory) =>
              /\ Len(m_alerts') = Len(m_alerts)
              /\ SubSeq(m_alerts', 1, Len(m_alerts') - 1) = Tail(m_alerts)
      ]_vars

\* the numbers acknowledgeAlert can be called with: every number whose decimal
\* form occurs in a source of the model lies in this range
AcknowledgeRange == (0 - MaxAlertId)..MaxAlertId

\* C7: every alert of the log, the alerts the engine creates included, can be
\* acknowledged: some alertId makes acknowledgeAlert mark exactly that alert,
\* so that getActiveAlerts no longer returns it, and change no other alert.
C7_AcknowledgeMarksThatAlert ==
    \A i \in 1..Len(m_alerts) :
        \E alertId \in AcknowledgeRange :
            LET after == acknowledgeAlert(m_alerts, alertId).alerts IN
            /\ after = [m_alerts EXCEPT ![i].acknowledged = TRUE]
            /\ Len(getActiveAlerts(after))
                   = Len(getActiveAlerts([m_alerts EXCEPT ![i].acknowledged = FALSE])) - 1

\* the number identifies no alert of the log: no source contains it
IdentifiesNone(alerts, alertId) ==
    \A i \in 1..Len(alerts) :
        ~QStringContains(alerts[i].source, QStringNumber(alertId))

\* C8: acknowledgeAlert with a number that identifies no alert of the log
\* changes neither the log, nor an acknowledged flag, nor the active flags and
\* last-alert times of the sources, and emits no signal.
C8_AcknowledgeUnknownIsNoOp ==
    [][(op'.name = "acknowledgeAlert" /\ IdentifiesNone(m_alerts, op'.args[1])) =>
        /\ m_alerts' = m_alerts
        /\ UNCHANGED <<cpuVars, memoryVars, tempVars, m_maxAlertsHistory>>
        /\ emitted' = <<>>
      ]_vars

\* acknowledgeAlert was called with a number that identifies none of the
\* alerts of a log that holds an unacknowledged alert
C8_Witness ==
    /\ op.name = "acknowledgeAlert"
    /\ IdentifiesNone(m_alerts, op.args[1])
    /\ \E i \in 1..Len(m_alerts) : ~m_alerts[i].acknowledged
    /\ emitted = <<>>

\* C9: getActiveAlerts returns exactly the alerts of the log whose
\* acknowledged flag is false, in log order, and so no acknowledged alert.
C9_ActiveAlertsAreTheUnacknowledged ==
    LET active == getActiveAlerts(m_alerts) IN
    /\ active = SelectSeq(getAllAlerts, LAMBDA a : a.acknowledged = FALSE)
    /\ \A k \in 1..Len(active) : ~active[k].acknowledged
    /\ Len(active) = getUnacknowledgedCount(m_alerts)

\* the log holds an acknowledged alert before an unacknowledged one and
\* after another
C9_Witness ==
    \E i, j, k \in 1..Len(m_alerts) :
        /\ i < j /\ j < k
        /\ ~m_alerts[i].acknowledged
        /\ m_alerts[j].acknowledged
        /\ ~m_alerts[k].acknowledged

\* C10: the cleanup removes exactly the alerts that are acknowledged and older
\* than the retention window, keeps the others in order, and emits
\* alertCountChanged if and only if it removed an alert.
C10_CleanupRemovesAcknowledgedOld ==
    [][op'.name = "cleanupOldAlerts" =>
        /\ m_alerts' = SelectSeq(m_alerts,
               LAMBDA a : ~(a.acknowledged /\ now' - a.timestamp > RETENTION_MS))
        /\ (\E k \in 1..Len(emitted') : emitted'[k].sig = "alertCountChanged")
               <=> Len(m_alerts') < Len(m_alerts)
        /\ \A k \in 1..Len(emitted') :
               /\ emitted'[k].sig = "alertCountChanged"
               /\ emitted'[k].total = Len(m_alerts')
      ]_vars

\* a cleanup removed an alert, told its listeners, and kept an acknowledged
\* alert that is not older than the retention window
C10_Witness ==
    /\ op.name = "cleanupOldAlerts"
    /\ emitted # <<>>
    /\ \E i \in 1..Len(m_alerts) : m_alerts[i].acknowledged

\* ------------------------------------------------------------------------
\* C11: the notifications of an append
\* ------------------------------------------------------------------------
\* the alerts the signals of one name carry, in the order of emission
Carried(signals, name) ==
    LET sel == SelectSeq(signals, LAMBDA s : s.sig = name)
    IN  [k \in 1..Len(sel) |-> sel[k].alert]

\* C11: every alert an operation appends to the log raises alertAdded carrying
\* it (addAlert appends its argument stamped with the current time; no other
\* alert raises alertAdded), and criticalAlert is raised for exactly the
\* appended alerts whose severity is Critical or Emergency, never for an Info
\* or Warning alert.
C11_AppendRaisesNotifications ==
    [][LET added == Carried(emitted', "alertAdded")
           critical == Carried(emitted', "criticalAlert")
       IN  /\ op'.name = "addAlert"
                  => added = <<[op'.args[1] EXCEPT !.timestamp = now']>>
           /\ op'.name = "addAlert"
                  => (Len(m_alerts) + Len(added) <= m_maxAlertsHistory
                         => m_alerts' = m_alerts \o added)
           /\ \A t \in Threads : Returns(t)
                  => (Len(calls[t].before.alerts) + Len(added) <= m_maxAlertsHistory
                         => m_alerts' = calls[t].before.alerts \o added)
           /\ op'.name \in {"addAlert", "checkCPUThresholds", "checkMemoryThresholds"}
                  => \A k \in 1..Len(added) : added[k].timestamp = now'
           /\ op'.name \notin {"addAlert", "checkCPUThresholds", "checkMemoryThresholds"}
                  => added = <<>>
           /\ critical = SelectSeq(added,
                  LAMBDA a : a.severity \in {"Critical", "Emergency"})
           /\ \A k \in 1..Len(critical) :
                  critical[k].severity \notin {"Info", "Warning"}
      ]_vars

\* addAlert appended an Emergency alert to a log that holds a Warning alert:
\* both notifications were raised for it
C11_Witness ==
    /\ op.name = "addAlert"
    /\ op.args[1].severity = "Emergency"
    /\ \E i \in 1..Len(m_alerts) : m_alerts[i].severity = "Warning"
    /\ Carried(emitted, "alertAdded") = <<m_alerts[Len(m_alerts)]>>
    /\ Carried(emitted, "criticalAlert") = <<m_alerts[Len(m_alerts)]>>

\* ------------------------------------------------------------------------
\* C12..C13: the history of a monitor
\* ------------------------------------------------------------------------
\* the last n elements of a sequence
LastN(seq, n) == SubSeq(seq, Len(seq) - n + 1, Len(seq))

Min(a, b) == IF a < b THEN a ELSE b

\* C12: the history never holds more snapshots than the configured size, and
\* once more ticks have completed than the size, the size unchanged meanwhile,
\* the history is exactly the last size published snapshots in their order.
C12_HistoryWithinCapacity ==
    /\ Len(monitor.m_history) <= monitor.m_maxHistorySize
    /\ constTicks > monitor.m_maxHistorySize =>
           monitor.m_history = LastN(published, monitor.m_maxHistorySize)

\* C13: setHistorySize(n) stores n clamped to [10, 1000] and, when it returns,
\* the history holds the most recent snapshots it held, at most the new size
\* of them; after every later tick the history still holds at most the size,
\* the most recently published snapshots.
C13_SetHistorySizeClampsAndTruncates ==
    [][/\ op'.name = "setHistorySize" =>
              /\ monitor'.m_maxHistorySize
                     = qBound(MIN_HISTORY_SIZE, op'.args[1], LIMIT_HISTORY_SIZE)
              /\ Len(monitor'.m_history) <= monitor'.m_maxHistorySize
              /\ monitor'.m_history
                     = LastN(monitor.m_history,
                             Min(Len(monitor.m_history), monitor'.m_maxHistorySize))
       /\ (op'.name = "onTimerTick" /\ resizes > 0) =>
              /\ Len(monitor'.m_history) <= monitor'.m_maxHistorySize
              /\ monitor'.m_history = LastN(published', Len(monitor'.m_history))
      ]_vars

\* ------------------------------------------------------------------------
\* C14..C18: the lifecycle of a monitor and its tick
\* ------------------------------------------------------------------------
\* the signals of one name among emitted signals
SignalsNamed(signals, name) == SelectSeq(signals, LAMBDA g : g.sig = name)

\* C14: a new monitor is neither running nor paused; startMonitoring on a
\* stopped monitor makes it running and emits monitoringStarted exactly once;
\* startMonitoring on a running monitor changes nothing and emits nothing;
\* stopMonitoring on a running monitor makes it not running and emits
\* monitoringStopped exactly once.
C14_StartStopLifecycle ==
    /\ ~m_isMonitoring /\ ~m_isPaused
    /\ [][/\ (op'.name = "startMonitoring" /\ ~m_isMonitoring) =>
                 /\ m_isMonitoring'
                 /\ timerActive'
                 /\ Len(SignalsNamed(emitted', "monitoringStarted")) = 1
          /\ (op'.name = "startMonitoring" /\ m_isMonitoring) =>
                 /\ UNCHANGED <<monitor, m_isMonitoring, m_isPaused,
                                timerActive, m_dataMutex, tickPc>>
                 /\ emitted' = <<>>
          /\ (op'.name = "stopMonitoring" /\ m_isMonitoring) =>
                 /\ ~m_isMonitoring'
                 /\ ~timerActive'
                 /\ Len(SignalsNamed(emitted', "monitoringStopped")) = 1
         ]_vars

\* startMonitoring was called on a monitor that is running and paused and
\* has published: nothing was emitted and the monitor is as it was
C14_Witness ==
    /\ op.name = "startMonitoring"
    /\ emitted = <<>>
    /\ m_isMonitoring
    /\ m_isPaused
    /\ published # <<>>

\* C15: when stopMonitoring returns no tick is in flight, and while the
\* monitor stays stopped no snapshot is published and the history is not
\* appended to.
C15_StopWaitsForTick ==
    [][/\ op'.name = "stopMonitoring" => tickPc' = "idle"
       /\ (~m_isMonitoring /\ ~m_isMonitoring') =>
              /\ published' = published
              /\ monitor'.m_history = monitor.m_history
              /\ SignalsNamed(emitted', DataSignal(kind)) = <<>>
      ]_vars

\* C16: a timer expiry that finds the monitor paused changes neither the
\* snapshot, nor the history, nor the counter baseline, nor the time of the
\* last update, begins no tick and emits nothing; a tick begins only at a
\* timer expiry that finds the monitor not paused, one tick per expiry, so
\* the expiries skipped during a pause are not made up for after the resume.
C16_PausedExpirySkipped ==
    [][/\ (op'.name = "onTimerTick" /\ m_isPaused) =>
              /\ monitor' = monitor
              /\ emitted' = <<>>
              /\ published' = published
              /\ tickPc' = "idle"
              /\ m_dataMutex' = m_dataMutex
       /\ (tickPc = "idle" /\ tickPc' # "idle") =>
              /\ op'.name = "onTimerTick"
              /\ ~m_isPaused
              /\ now' = now + UPDATE_INTERVAL
       /\ (op'.name # "onTimerTick" /\ tickPc = "idle") => tickPc' = "idle"
      ]_vars

\* a monitor that has published was paused and a timer expiry was skipped
C16_Witness ==
    /\ op = Operation("onTimerTick", <<"skipped">>)
    /\ m_isPaused
    /\ published # <<>>
    /\ monitor.m_lastUpdateTime < now
    /\ monitor.m_lastUpdateTime # InvalidTime

\* C17: a tick in which a phase raises a fault emits errorOccurred and no
\* snapshot-updated signal, and leaves the history, the time of the last
\* update and the snapshot getCurrentData returns as they were before the
\* tick.
C17_FaultPublishesNothing ==
    [][op'.name = "fault" =>
           /\ Len(SignalsNamed(tickLog', "errorOccurred")) = 1
           /\ SignalsNamed(tickLog', DataSignal(kind)) = <<>>
           /\ monitor'.m_history = tickStart.m_history
           /\ monitor'.m_lastUpdateTime = tickStart.m_lastUpdateTime
           /\ monitor'.m_currentData = tickStart.m_currentData
      ]_vars

\* the snapshot a monitor is constructed with
Constructed(k) ==
    AtStart(IF k = "cpu" THEN CPUMonitor.m_currentData
            ELSE MemoryMonitor.m_currentData)

\* C18: a tick begins only when no tick is in flight and holds the mutex from
\* its beginning to its end; getCurrentData and getHistory on another thread
\* run only between two ticks, and what they return is complete:
\* getCurrentData the snapshot the last tick published, the constructed
\* snapshot before any was published, and getHistory the snapshots
\* published so far, the last of them the newest.
C18_TickExclusiveReadsAtomic ==
    [][/\ op'.name = "onTimerTick" => (tickPc = "idle" /\ m_dataMutex = "free")
       /\ (tickPc' # "idle") <=> (m_dataMutex' = "tick")
       /\ op'.name \in {"getCurrentData", "getHistory"} => tickPc = "idle"
       /\ op'.name = "getCurrentData" =>
              readResult'.data = IF published = <<>> THEN Constructed(kind)
                                 ELSE published[Len(published)]
       /\ op'.name = "getHistory" =>
              readResult'.data
                  = LastN(published, Min(Len(published), monitor.m_maxHistorySize))
      ]_vars

\* ------------------------------------------------------------------------
\* C19..C20: the rate computation
\* ------------------------------------------------------------------------
\* equality of two doubles
RatEq(a, b) == a[1] * b[2] = b[1] * a[2]

\* the two deltas of the counters handed to the rate computation
TotalDelta == rateIn.totalTime - rateIn.lastTotalTime
IdleDelta == rateIn.idleTime - rateIn.lastIdleTime

\* 100 * (1 - idleDelta / totalDelta) clamped to [0, 100], for totalDelta > 0
ClampedRate(idleDelta, totalDelta) ==
    IF idleDelta > totalDelta THEN RatZero
    ELSE IF idleDelta < 0 THEN RatHundred
    ELSE Rat(100 * (totalDelta - idleDelta), totalDelta)

\* C19: for counters with totalDelta > 0 both implementations return
\* 100 * (1 - idleDelta / totalDelta) clamped to [0, 100], a value in
\* [0, 100] also when idleDelta > totalDelta or idleDelta < 0; the counters
\* (total 1000, idle 800) followed by (total 1200, idle 850) give 75.0.
C19_RateIsClampedFormula ==
    (rateOut.computed /\ TotalDelta > 0) =>
        /\ RatEq(rateOut.system.value, ClampedRate(IdleDelta, TotalDelta))
        /\ RatEq(rateOut.monitor.value, ClampedRate(IdleDelta, TotalDelta))
        /\ isValidPercentage(rateOut.system.value)
        /\ isValidPercentage(rateOut.monitor.value)
        /\ rateIn = RateInput(1200, 850, 1000, 800) =>
               /\ RatEq(rateOut.system.value, Rat(75, 1))
               /\ RatEq(rateOut.monitor.value, Rat(75, 1))

\* the computation ran on (1000, 800) followed by (1200, 850): 75.0
C19_Witness ==
    /\ rateOut.computed
    /\ rateIn = RateInput(1200, 850, 1000, 800)
    /\ TotalDelta > 0
    /\ RatEq(rateOut.system.value, Rat(75, 1))
    /\ RatEq(rateOut.monitor.value, Rat(75, 1))

\* C20: for counters with totalDelta <= 0 both implementations return exactly
\* 0.0 whatever the idle counters are, without dividing; no call divides by
\* zero or by a negative total delta.
C20_NoElapsedTimeIsZero ==
    rateOut.computed =>
        /\ TotalDelta <= 0 =>
               /\ rateOut.system = [value |-> RatZero, divisors |-> <<>>]
               /\ rateOut.monitor = [value |-> RatZero, divisors |-> <<>>]
        /\ \A k \in 1..Len(rateOut.system.divisors) :
               rateOut.system.divisors[k] > 0
        /\ \A k \in 1..Len(rateOut.monitor.divisors) :
               rateOut.monitor.divisors[k] > 0

\* the computation ran on counters whose total did not move while the idle
\* counter went back
C20_Witness ==
    /\ rateOut.computed
    /\ TotalDelta = 0
    /\ IdleDelta < 0
    /\ rateOut.system.value = RatZero
    /\ rateOut.monitor.value = RatZero

\* ------------------------------------------------------------------------
\* C21..C26: what a CPU monitor and a memory monitor publish
\* ------------------------------------------------------------------------
\* C21: the first tick of a CPU monitor after construction, when no counter
\* snapshot has been read before it, publishes totalUsage 0.0.
C21_FirstTickUsageZero ==
    (kind = "cpu" /\ Len(published) >= 1)
        => RatEq(published[1].totalUsage, RatZero)

\* the snapshot the last tick published
LastPublished == published[Len(published)]

\* the tick that read raw read the aggregate counters
CountersRead(raw) == raw.statOk /\ raw.cpuLineOk

\* C22: of two ticks in a row that read the counters, the second publishes
\* totalUsage 0.0 when the total went back; and when the first of them had
\* seen the total go back and the second sees it go forward, the second
\* publishes the rate of its two readings: the 0.0 lasts one tick.
C22_RegressionZeroOneTick ==
    [][ (/\ op.name = "onTimerTick" /\ CountersRead(op.args[1])
         /\ op'.name = "onTimerTick" /\ CountersRead(op'.args[1]))
        => LET before == tickStart.m_currentStats
               first == op.args[1]
               second == op'.args[1]
           IN  /\ total(second) < total(first)
                     => RatEq(LastPublished'.totalUsage, RatZero)
               /\ (total(first) < total(before) /\ total(second) > total(first))
                     => RatEq(LastPublished'.totalUsage,
                              ClampedRate(second.idle - first.idle,
                                          total(second) - total(first))) ]_vars

\* a tick has published 0.0 for counters that went back and the next tick
\* has published a rate above 0.0
C22_Witness ==
    /\ op.name = "onTimerTick" /\ CountersRead(op.args[1])
    /\ Len(published) >= 3
    /\ total(tickStart.m_currentStats) < total(tickStart.m_previousStats)
    /\ total(op.args[1]) > total(tickStart.m_currentStats)
    /\ RatEq(published[Len(published) - 1].totalUsage, RatZero)
    /\ RatLess(RatZero, LastPublished.totalUsage)

\* core i's counters were read by the tick that read raw
CoreRead(raw, i) == raw.statOk /\ i <= Len(raw.cores) /\ raw.cores[i].ok

\* C23: each core on its own: a tick that read the core's counters publishes
\* for it the rate of the core's current and previous counters, 0.0 when the
\* core's total did not go forward; a tick that could not read them publishes
\* the usage the core had after the tick before.
C23_PerCoreRateOrRetained ==
    [][ op'.name = "onTimerTick"
        => \A i \in 1..getCPUCoreCount(Processors) :
            LET raw == op'.args[1]
                previous == monitor.m_coreStats[i]
                entry == LastPublished'.cores[i]
            IN  IF CoreRead(raw, i)
                THEN LET totalDelta == total(raw.cores[i]) - total(previous)
                         idleDelta == raw.cores[i].idle - previous.idle
                     IN  RatEq(entry.usage,
                               IF totalDelta <= 0 THEN RatZero
                               ELSE ClampedRate(idleDelta, totalDelta))
                ELSE entry.usage = monitor.m_currentData.cores[i].usage ]_vars

\* C24: a memory tick that read a total above zero publishes usagePercentage
\* (total - available) / total * 100; a total of 1,000,000 with 250,000
\* available (the claim's figures, in kB) is published as 75.0 and Normal.
C24_MemoryUsageFromAvailable ==
    kind = "memory"
        => \A i \in 1..Len(published) :
            LET data == published[i] IN
            /\ data.totalRAM > 0
                  => RatEq(data.usagePercentage,
                           Rat(100 * (data.totalRAM - data.availableRAM), data.totalRAM))
            /\ (data.totalRAM = 1000000 /\ data.availableRAM = 250000)
                  => (RatEq(data.usagePercentage, Rat(75, 1)) /\ data.status = "Normal")

\* C25: the status of every published CPU snapshot is Critical when the
\* temperature is at or above the critical temperature, else Warning when it
\* is at or above the warning temperature, else Critical when the usage is
\* at or above the critical usage, else Warning when it is at or above the
\* warning usage, else Normal.
C25_StatusPriorityRule ==
    kind = "cpu"
        => \A i \in 1..Len(published) :
            LET data == published[i] IN
            data.status =
                CASE data.temperature >= 1000 * TEMP_CRITICAL_THRESHOLD -> "Critical"
                  [] data.temperature >= 1000 * TEMP_WARNING_THRESHOLD -> "Warning"
                  [] data.totalUsage[1] >= CPU_CRITICAL_THRESHOLD * data.totalUsage[2] -> "Critical"
                  [] data.totalUsage[1] >= CPU_WARNING_THRESHOLD * data.totalUsage[2] -> "Warning"
                  [] OTHER -> "Normal"

\* a published snapshot with the temperature in the warning band and the
\* usage above the critical usage has status Warning
C25_Witness ==
    /\ kind = "cpu"
    /\ \E i \in 1..Len(published) :
        /\ published[i].temperature >= 1000 * TEMP_WARNING_THRESHOLD
        /\ published[i].temperature < 1000 * TEMP_CRITICAL_THRESHOLD
        /\ published[i].totalUsage[1] >= CPU_CRITICAL_THRESHOLD * published[i].totalUsage[2]
        /\ published[i].status = "Warning"

\* a CPU snapshot in range: totalUsage in [0, 100], temperature in
\* [-40, 150] degrees, as many core entries as the monitor was constructed
\* with, each with its index and a usage in [0, 100]
CpuSnapshotInRange(data) ==
    /\ data.totalUsage[1] >= 0
    /\ data.totalUsage[1] <= 100 * data.totalUsage[2]
    /\ data.temperature >= -40 * 1000
    /\ data.temperature <= 150 * 1000
    /\ data.coreCount = getCPUCoreCount(Processors)
    /\ Len(data.cores) = data.coreCount
    /\ \A i \in 1..Len(data.cores) :
        /\ data.cores[i].coreID = i - 1
        /\ data.cores[i].usage[1] >= 0
        /\ data.cores[i].usage[1] <= 100 * data.cores[i].usage[2]

\* C26: every CPU snapshot published, and every one getCurrentData returns
\* once a tick has run, is in range, whatever the raw source returned and
\* whether a tick raised or not; the one getCurrentData returns while the
\* monitor holds the snapshot it was constructed with differs only in the
\* indices of its core entries; coreCount is the same in all of them.
C26_CpuSnapshotsInRange ==
    kind = "cpu"
        => /\ \A i \in 1..Len(published) : CpuSnapshotInRange(published[i])
           /\ readResult.call = "getCurrentData"
                 => \/ CpuSnapshotInRange(readResult.data)
                    \/ readResult.data = Constructed("cpu")

\* ------------------------------------------------------------------------
\* C27..C30: the coordinator
\* ------------------------------------------------------------------------

\* C27: setUpdateInterval(ms) stores max(100, ms): in the coordinator and in
\* every owned monitor; a monitor that is running has its timer period set
\* to that value in the same call, and so has the aggregation timer when the
\* coordinator is running; a start() of an initialized coordinator that was
\* not running starts both monitor timers and the aggregation timer with the
\* values stored before it.
C27_IntervalClampedAndApplied ==
    [][ /\ (op'.name = "setUpdateInterval") =>
            LET ms == op'.args[1]
                stored == IF ms >= 100 THEN ms ELSE 100
            IN  /\ dm'.m_updateInterval = stored
                /\ \A k \in Owned(dm) :
                      /\ dm'.monitors[k].m_updateInterval = stored
                      /\ dm'.monitors[k].timerActive = dm.monitors[k].timerActive
                      /\ dm.monitors[k].m_isMonitoring =>
                            dm'.monitors[k].timerInterval = stored
                /\ dm.m_isRunning => dm'.aggregationTimer.interval = stored
        /\ (op'.name = "start" /\ dm.m_isInitialized /\ ~dm.m_isRunning) =>
                /\ \A k \in Kinds :
                      /\ dm'.monitors[k].timerActive
                      /\ dm'.monitors[k].timerInterval = dm.monitors[k].m_updateInterval
                      /\ dm.monitors[k].m_updateInterval = dm.m_updateInterval
                /\ dm'.aggregationTimer = [active |-> TRUE, interval |-> dm.m_updateInterval]
      ]_vars

\* setUpdateInterval(50) on a running coordinator: every timer now at 100
C27_Witness ==
    /\ op.name = "setUpdateInterval"
    /\ op.args[1] < MIN_UPDATE_INTERVAL
    /\ dm.m_isRunning
    /\ dm.aggregationTimer = [active |-> TRUE, interval |-> MIN_UPDATE_INTERVAL]
    /\ \A k \in Kinds : /\ dm.monitors[k].timerActive
                         /\ dm.monitors[k].timerInterval = MIN_UPDATE_INTERVAL

\* an initialize() that reported a failure
Reported(signals) ==
    \E i \in 1..Len(signals) : signals[i].sig = "errorOccurred"

\* C28: when initialize() has reported a construction failure and left the
\* coordinator uninitialized, a following start() during which the same
\* constructions fail does not start monitoring: isRunning stays false, no
\* monitor is started, the aggregation timer is not started and no
\* monitoringStateChanged(true) is emitted.
C28_FailedInitializeBlocksStart ==
    [][ ( /\ op.name = "initialize"
          /\ Reported(emitted)
          /\ ~dm.m_isInitialized
          /\ op'.name = "start"
          /\ op'.args[1] = op.args[1] ) =>
            /\ ~dm'.m_isRunning
            /\ \A k \in Owned(dm') : ~dm'.monitors[k].m_isMonitoring
            /\ ~dm'.aggregationTimer.active
            /\ \A i \in 1..Len(emitted') :
                  emitted'[i] # MonitorSignal("monitoringStateChanged", <<TRUE>>)
      ]_vars

\* the state of the coordinator apart from the record of the slots called
\* in the last step
Settled(d) == [d EXCEPT !.delivered = <<>>]

\* how many of the calls in delivered went to the slot
Calls(delivered, slot) ==
    Cardinality({i \in 1..Len(delivered) : delivered[i].slot = slot})

\* the slots a publish of the monitor is wired to
SlotsOf(k) ==
    IF k = "cpu" THEN {"onCPUDataUpdated", "checkCPUThresholds"}
    ELSE {"onMemoryDataUpdated", "checkMemoryThresholds"}

\* C29: the lifecycle operations of the coordinator are idempotent.  An
\* initialize() of an initialized coordinator constructs nothing, adds no
\* connection and emits nothing; a start() of a coordinator that is running,
\* and a stop() of one that is not running (initialized or not), change no
\* state and emit nothing; and once an initialize() has completed without
\* reporting a failure, every publish of a monitor calls the slot of the
\* overview and the slot of the alert engine exactly once each, with the
\* snapshot published, the overview then holding it.
C29_LifecycleIdempotent ==
    /\ [][ ( \/ (op'.name = "initialize" /\ dm.m_isInitialized)
             \/ (op'.name = "start" /\ dm.m_isRunning)
             \/ (op'.name = "stop" /\ ~dm.m_isRunning) ) =>
                (dm' = Settled(dm) /\ emitted' = <<>>)
          ]_vars
    /\ []( ( /\ op.name \in {"initialize", "start"}
             /\ dm.m_isInitialized
             /\ \E i \in 1..Len(emitted) : emitted[i].sig = "initializationComplete"
             /\ ~Reported(emitted) ) =>
            []( (op.name = "onTimerTick" /\ Len(op.args) = 2) =>
                LET k == op.args[1]
                    snapshot == dm.monitors[k].data.m_currentData
                IN  /\ \A slot \in SlotsOf(k) : Calls(dm.delivered, slot) = 1
                    /\ Len(dm.delivered) = 2
                    /\ \A i \in 1..2 : dm.delivered[i].data = snapshot
                    /\ snapshot = IF k = "cpu" THEN dm.m_currentOverview.cpu
                                  ELSE dm.m_currentOverview.memory ) )

\* the overview-updated notifications of the last step
OverviewsEmitted ==
    {emitted[i].data : i \in {j \in 1..Len(emitted) : emitted[j].sig = "systemDataUpdated"}}

\* C30: an overview-updated notification is emitted by an aggregation tick
\* only, carries the overview the coordinator holds, and both snapshots in
\* it are valid: coreCount > 0, totalRAM > 0, both usages in [0, 100];
\* neither snapshot is the one the overview was constructed with, each has
\* been published by its monitor.
C30_OverviewOnlyWhenValid ==
    \A overview \in OverviewsEmitted :
        /\ op.name = "aggregateSystemData"
        /\ overview = dm.m_currentOverview
        /\ overview.cpu.coreCount > 0
        /\ overview.memory.totalRAM > 0
        /\ RatAtLeast(overview.cpu.totalUsage, 0)
        /\ ~RatLess(RatHundred, overview.cpu.totalUsage)
        /\ RatAtLeast(overview.memory.usagePercentage, 0)
        /\ ~RatLess(RatHundred, overview.memory.usagePercentage)
        /\ overview.cpu # AtStart(CPUData)
        /\ overview.memory # AtStart(MemoryData)
        /\ \A k \in Kinds : dm.monitors[k].data.m_lastUpdateTime # InvalidTime

\* an aggregation tick that emitted the overview
C30_Witness ==
    /\ op.name = "aggregateSystemData"
    /\ OverviewsEmitted = {dm.m_currentOverview}
    /\ dm.m_currentOverview.cpu.coreCount = Processors
    /\ dm.m_currentOverview.memory.totalRAM > 0

\* ------------------------------------------------------------------------
\* C31..C40: pause, locks, order of publication, lifecycle invariants
\* ------------------------------------------------------------------------

\* the notifications that carry a snapshot, an overview or an alert
DataNotifications ==
    {"cpuDataUpdated", "memoryDataUpdated", "dataUpdated", "temperatureCritical",
     "temperatureWarning", "usageCritical", "usageWarning", "memoryCritical",
     "memoryWarning", "lowMemoryAlert", "systemDataUpdated", "alertAdded",
     "criticalAlert"}

\* C31: from a pause() of the running coordinator to the resume() or stop()
\* that follows it, no step emits a snapshot, an overview or an alert, no
\* slot is called and the overview keeps its snapshots; pause() itself, every
\* step while paused and the resume() leave the log, the active flags and the
\* last-alert times of the alert engine as they are; and while every value
\* of a source is at or above its critical threshold, the Critical alert of
\* the source that was inside its cooldown when the coordinator was paused
\* is not emitted again by an evaluation after the resume() that ends before
\* that cooldown has elapsed.
C31_PauseSilentAlertStateKept ==
    [][ /\ (dm.m_isRunning /\ dm.m_isPaused) =>
              /\ \A i \in 1..Len(emitted') : emitted'[i].sig \notin DataNotifications
              /\ dm'.delivered = <<>>
              /\ dm'.pending = <<>>
              /\ dm'.m_currentOverview = dm.m_currentOverview
              /\ UNCHANGED <<m_alerts, cpuVars, memoryVars, tempVars>>
        /\ (op'.name = "pause") =>
              UNCHANGED <<m_alerts, cpuVars, memoryVars, tempVars>>
        /\ (Returns("main") /\ ~dm.m_isPaused) =>
              \A source \in Sources :
                  LET fired == calls["main"].before.lastFired[<<source, "Critical">>]
                  IN  ( /\ Evaluated(source, calls["main"])
                        /\ allCritical'[source]
                        /\ fired # InvalidTime
                        /\ dm.pausedAt # InvalidTime
                        /\ fired <= dm.pausedAt
                        /\ MsecsTo(fired, dm.pausedAt) <= ALERT_COOLDOWN_MS
                        /\ MsecsTo(fired, now') <= ALERT_COOLDOWN_MS ) =>
                          AlertsOfSeverity(source, "Critical",
                                           calls["main"].emitted) = <<>>
      ]_vars

\* the snapshots a monitor has published so far, those of its history and
\* the one a tick in flight has emitted, and the one the overview is
\* constructed with
PublishedBy(k) ==
    {AtStart(IF k = "cpu" THEN CPUData ELSE MemoryData)}
    \cup (IF dm.monitors[k].exists
          THEN {dm.monitors[k].data.m_history[i] :
                    i \in 1..Len(dm.monitors[k].data.m_history)}
               \cup (IF dm.monitors[k].m_dataMutex = "tick"
                     THEN {dm.monitors[k].data.m_currentData} ELSE {})
          ELSE {})

\* C32: every value getCurrentSystemData returns has as its CPU part one
\* snapshot the CPU monitor has published, or the default, and as its
\* memory part one snapshot the memory monitor has published, or the
\* default; and after every publish of a monitor the overview's part for
\* that monitor is that monitor's current snapshot.
C32_OverviewReadsConsistent ==
    [][ /\ (op' = Operation("getCurrentSystemData", <<"return">>)) =>
              /\ readResult'.data.cpu \in PublishedBy("cpu")
              /\ readResult'.data.memory \in PublishedBy("memory")
        /\ \A k \in Owned(dm') :
              ( /\ dm'.monitors[k].m_dataMutex = "free"
                /\ k \in Owned(dm)
                /\ dm.monitors[k].m_dataMutex = "tick" ) =>
                  dm'.monitors[k].data.m_currentData
                      = IF k = "cpu" THEN dm'.m_currentOverview.cpu
                        ELSE dm'.m_currentOverview.memory
      ]_vars

\* C34: the locks are taken in one order, a monitor's before the
\* coordinator's and before the alert engine's, and no thread that holds
\* the coordinator's or the alert engine's takes another: whoever holds a
\* lock can take its next step or waits for a lock whose holder can, so that
\* no thread waits in a circle. The readers that hold the coordinator's
\* lock, the alert engine's or a monitor's never wait; the tick that holds a
\* monitor's lock waits, if at all, for the reader of the overview or the
\* reader of the alerts; the aggregation tick holds no lock while it waits
\* and waits for the reader of the overview alone.
C34_LockOrderAcyclic ==
    dm.terminated \/
    /\ (dm.m_dataMutex = "getCurrentSystemData") =>
           ENABLED (GetSystemDataCopy \/ GetSystemDataReturn)
    /\ (dm.m_alertsMutex = "getActiveAlerts") => ENABLED GetActiveAlertsReturn
    /\ \A k \in Owned(dm) :
        /\ (dm.monitors[k].m_dataMutex = "getCurrentData") =>
               ENABLED GetMonitorDataReturn
        /\ (dm.monitors[k].m_dataMutex = "tick") =>
               \/ ENABLED (OvOverviewSlot \/ DmAlertSlot \/ DmAlertAccess
                           \/ DmFinishTick)
               \/ /\ Head(dm.pending).receiver = "dataManager"
                  /\ dm.m_dataMutex = "getCurrentSystemData"
               \/ /\ calls["main"].pc = "addAlert"
                  /\ dm.m_alertsMutex = "getActiveAlerts"
    /\ (dm.aggregationTimer.active /\ ~Busy(dm) /\ steps < MaxDmSteps) =>
           \/ ENABLED OvAggregateUpdate
           \/ dm.m_dataMutex = "getCurrentSystemData"
    /\ dm.aggregating =>
           \/ ENABLED OvAggregateEmit
           \/ dm.m_dataMutex = "getCurrentSystemData"

\* a tick that holds its monitor's lock waits at addAlert for the alert
\* engine's, held by a reader of the alerts, while a reader of the overview
\* holds the coordinator's and a reader of the other monitor that monitor's
C34_Witness ==
    /\ calls["main"].pc = "addAlert"
    /\ dm.m_alertsMutex = "getActiveAlerts"
    /\ dm.m_dataMutex = "getCurrentSystemData"
    /\ \E k \in Owned(dm) : dm.monitors[k].m_dataMutex = "tick"
    /\ \E k \in Owned(dm) : dm.monitors[k].m_dataMutex = "getCurrentData"

\* C33: no call blocks for good: a consumer that, while it handles the
\* snapshot signal of a monitor, calls getCurrentData or getHistory of that
\* monitor never waits for the mutex that the tick notifying it holds, and
\* its call returns.
C33_ConsumerCallsReturn ==
    /\ tickPc # "blocked"
    /\ (tickPc = "notified" /\ op.name = "slot" /\ op.args[1] # "none") =>
           readResult.call = op.args[1]

\* the last element of a sequence
Last(seq) == seq[Len(seq)]

\* C35: when a consumer receives the snapshot signal of a monitor, the last
\* element of the monitor's history is the snapshot the signal carries.
C35_HistoryAppendedBeforeNotify ==
    (tickPc = "notify") =>
        /\ monitor.m_history # <<>>
        /\ Last(monitor.m_history) = emitted[1].data

\* C36: a monitor that reports isPaused() reports isMonitoring(): it is never
\* paused while stopped, whatever lifecycle calls were made.
C36_PausedImpliesMonitoring ==
    m_isPaused => m_isMonitoring

\* C37: in every state of an initialized coordinator, paused implies
\* running; it is running exactly when both monitors are monitoring, paused
\* exactly when both monitors are paused, and its aggregation timer is active
\* exactly when it is running and not paused.
C37_CoordinatorAgreesWithMonitors ==
    (dm.m_isInitialized /\ ~dm.terminated) =>
        /\ dm.m_isPaused => dm.m_isRunning
        /\ dm.m_isRunning <=> (\A k \in Kinds : dm.monitors[k].m_isMonitoring)
        /\ dm.m_isPaused <=> (\A k \in Kinds : dm.monitors[k].m_isPaused)
        /\ dm.aggregationTimer.active <=> (dm.m_isRunning /\ ~dm.m_isPaused)

\* the alertCountChanged notifications of a step, in the order emitted
CountsEmitted(signals) ==
    SelectSeq(signals, LAMBDA signal : signal.sig = "alertCountChanged")

\* C38: the alertCountChanged an operation of the alert engine emits last
\* carries the counts of the log the operation leaves: total is the length
\* of getAllAlerts(), unacknowledged the length of getActiveAlerts(), and
\* 0 <= unacknowledged <= total <= capacity.
C38_CountsAreThoseOfTheLog ==
    [][ CountsEmitted(emitted') # <<>> =>
            LET counts == Last(CountsEmitted(emitted')) IN
            /\ counts.total = Len(m_alerts')
            /\ counts.unack = Len(getActiveAlerts(m_alerts'))
            /\ 0 <= counts.unack
            /\ counts.unack <= counts.total
            /\ counts.total <= m_maxAlertsHistory'
      ]_vars

\* C40: the three rate computations agree: calculateCPUUsage returns what
\* calculateUsagePercent computes from the same counters, and where the
\* total counter has advanced collectCoreData gives every core with those
\* counters the same usage.
C40_RateComputationsAgree ==
    rateOut.computed =>
        /\ RatEq(rateOut.system.value, rateOut.monitor.value)
        /\ TotalDelta > 0 =>
               \A i \in DOMAIN rateOut.cores :
                   RatEq(rateOut.cores[i].usage, rateOut.system.value)

\* the three computed from counters that advanced, 200 of 800 ticks idle
C40_Witness ==
    /\ rateOut.computed
    /\ TotalDelta = 800
    /\ IdleDelta = 200
    /\ RatEq(rateOut.system.value, Rat(75, 1))
    /\ rateOut.cores # <<>>
    /\ RatEq(rateOut.cores[1].usage, Rat(75, 1))

\* the coordinator reports running and not paused
Live == dm.m_isRunning /\ ~dm.m_isPaused /\ ~dm.terminated

\* the last step was a tick of the monitor that emitted its snapshot signal
SnapshotEmitted(k) ==
    /\ op.name = "onTimerTick"
    /\ op.args[1] = k
    /\ \E i \in 1..Len(emitted) : emitted[i].sig = DataSignal(k)

\* both monitors have published, and the snapshots they hold are valid
BothSnapshotsValid ==
    /\ Owned(dm) = Kinds
    /\ \A k \in Kinds : dm.monitors[k].data.m_history # <<>>
    /\ isValid([dm.m_currentOverview EXCEPT
                   !.cpu = dm.monitors["cpu"].data.m_currentData,
                   !.memory = dm.monitors["memory"].data.m_currentData])

\* C39: a coordinator that is running and not paused publishes: while it
\* stays so, each monitor whose timer has an expiry left eventually emits
\* its snapshot signal, and once both monitors have published valid
\* snapshots and stay so, the coordinator, its aggregation timer having an
\* expiry left, eventually emits the overview.
C39_RunningPublishes ==
    /\ \A k \in Kinds :
           (Live /\ dm.expiries[k] < MaxExpiries) ~> (SnapshotEmitted(k) \/ ~Live)
    /\ (Live /\ BothSnapshotsValid /\ dm.expiries["aggregate"] < MaxExpiries) ~>
           \/ OverviewsEmitted # {}
           \/ ~(Live /\ BothSnapshotsValid)

====
